---- MODULE Spec2Model ----
(***************************************************************************)
(* School Management System (src/app.py): the data layer's operations on   *)
(* the SQLite tables and the Streamlit pages that call them.               *)
(*                                                                         *)
(* Tables are sets of rows.  The surrogate keys of the attendance and      *)
(* salary tables (id / salary_id INTEGER PRIMARY KEY AUTOINCREMENT) are    *)
(* left out of the rows: no statement of the program reads them except     *)
(* COUNT(ta.id), which counts rows.  teacher_id is kept, with its          *)
(* AUTOINCREMENT counter.                                                  *)
(*                                                                         *)
(* Money is counted in thirtieths of a rupee, so that base_salary / 30 of  *)
(* a whole-rupee salary is exact: Rupees(30000) \div 30 = 30000 thirtieths *)
(* = 1000 rupees.  Floating-point rounding is outside the model.           *)
(*                                                                         *)
(* Marks are counted in thousandths of a mark and a percentage is the      *)
(* exact fraction num / den, so that ROUND(x, 2) and the comparisons of    *)
(* calculate_grade are computed on the value the floats stand for.         *)
(***************************************************************************)
EXTENDS Integers, Naturals, Sequences, FiniteSets, TLC

VARIABLES
    teachers,            \* rows of table teachers: [teacher_id, salary]
    next_teacher_id,     \* AUTOINCREMENT counter of teachers.teacher_id
    teacher_attendance,  \* rows of teacher_attendance: [teacher_id, attendance_date, status]
    student_attendance,  \* rows of student_attendance: [student_id, attendance_date, status]
    salary_records,      \* rows of salary_records
    ui,                  \* what the last run of salary_management_page rendered
    last,                \* the last operation: its name, arguments, locals, return value
    teacher_marks,       \* history: <<teacher_id, date>> -> status of the latest accepted mark
    student_marks,       \* history: <<student_id, date>> -> status of the latest accepted mark
    saved,               \* history: <<teacher_id, month name, year>> -> latest accepted save
    students,            \* rows of table students: [student_id, class, section, roll_number]
    next_student_id,     \* AUTOINCREMENT counter of students.student_id
    subjects,            \* rows of table subjects: [subject_id, subject_name, class, teacher_id]
    next_subject_id,     \* AUTOINCREMENT counter of subjects.subject_id
    student_results,     \* rows of table student_results
    admins,              \* rows of table admins: [username, password]
    session_state,       \* st.session_state: logged_in, username, page
    rendered,            \* the page the last run of main() drew
    attendance_cache,    \* st.session_state of student_attendance_page
    fault,               \* the exception the store raises on the next statement, if any
    conns                \* per operator: the open connection's uncommitted statement

\* the tables of students, subjects and exam results
school == <<students, next_student_id, subjects, next_subject_id, student_results>>
\* the login shell
shell == <<admins, session_state, rendered, attendance_cache>>
\* the condition of the store and its open connections
store == <<fault, conns>>

vars == <<teachers, next_teacher_id, teacher_attendance, student_attendance,
          salary_records, ui, last, teacher_marks, student_marks, saved,
          school, shell, store>>

(***************************************************************************)
(* Bounds and input sets                                                   *)
(***************************************************************************)
\* teacher_id values the AUTOINCREMENT counter may hand out
MaxTeacherId == 2

\* students and subjects are added while their next ids are at most these
MaxStudentId == 2
MaxSubjectId == 2

\* the divisor of per_day_salary
DaysPerMonth == 30

\* a whole-rupee amount in thirtieths of a rupee
Rupees(r) == 30 * r

\* salaries the Add Teacher form accepts (salary > 0) and the ones the Edit
\* form accepts (no min_value)
AddSalaries == {Rupees(30000)}
UpdateSalaries == {Rupees(-3100), Rupees(3100)}

Date(y, m, d) == [year |-> y, month |-> m, day |-> d]

Statuses == {"Present", "Absent"}

NoStatus == "Not Marked"

\* teacher ids callers pass: the ids the counter can hand out and one it never does
TeacherArgs == 1 .. (MaxTeacherId + 1)

(***************************************************************************)
(* Text: str(), f'{n:02d}', date.isoformat(), SQLite strftime              *)
(***************************************************************************)
DigitChars == <<"0", "1", "2", "3", "4", "5", "6", "7", "8", "9">>

Chr(n) == DigitChars[n + 1]

RECURSIVE StrNat(_)
StrNat(n) == IF n < 10 THEN <<Chr(n)>> ELSE StrNat(n \div 10) \o <<Chr(n % 10)>>

\* Python str(n)
Str(n) == IF n < 0 THEN <<"-">> \o StrNat(-n) ELSE StrNat(n)

RECURSIVE ZeroPad(_, _)
ZeroPad(s, width) == IF Len(s) >= width THEN s ELSE ZeroPad(<<"0">> \o s, width)

\* Python f'{n:02d}': width 2 counts the sign
Format02d(n) == IF n < 0 THEN <<"-">> \o ZeroPad(StrNat(-n), 1) ELSE ZeroPad(StrNat(n), 2)

\* sqlite3's adapter stores a datetime.date as its isoformat(): 'YYYY-MM-DD'
isoformat(d) ==
    ZeroPad(StrNat(d.year), 4) \o <<"-">> \o ZeroPad(StrNat(d.month), 2)
        \o <<"-">> \o ZeroPad(StrNat(d.day), 2)

\* SQLite strftime('%m', text) and strftime('%Y', text) of an ISO date text
strftime_m(text) == SubSeq(text, 6, 7)
strftime_Y(text) == SubSeq(text, 1, 4)

(***************************************************************************)
(* Shapes of the values operations return                                  *)
(***************************************************************************)
\* calculate_monthly_salary's tuple (base_salary, deductions, net_salary);
\* is_none marks (None, None, None)
Salary3(b, d, n) == [is_none |-> FALSE, base_salary |-> b, deductions |-> d, net_salary |-> n]
None3 == [is_none |-> TRUE, base_salary |-> 0, deductions |-> 0, net_salary |-> 0]

\* the row fetched by the attendance query; read = FALSE when the query never ran
Counts(t, p, a) == [read |-> TRUE, total_days |-> t, present_days |-> p, absent_days |-> a]
NotRead == [read |-> FALSE, total_days |-> 0, present_days |-> 0, absent_days |-> 0]

NoArgs == [teacher_id |-> 0, month |-> 0, year |-> 0]

\* The Salary Management page as last rendered: whether the 'Save Salary Record'
\* button is on screen, and the selection and tuple of the run that drew it.  A
\* run of any other form or page draws no such button, so every operation
\* reached through one leaves NoUi.
NoUi == [save_button |-> FALSE, teacher_id |-> 0, month |-> 0, year |-> 0,
         computed |-> None3]

\* last: the operation, its arguments, the data-layer functions it called, the
\* attendance row it fetched and what it returned (or, for a page, displayed)
Step(name, args, calls, attendance, ret) ==
    [op |-> name, args |-> args, calls |-> calls, attendance |-> attendance, ret |-> ret]

Op(name, args, attendance, ret) == Step(name, args, {name}, attendance, ret)

(***************************************************************************)
(* Input sets of the specifications                                        *)
(***************************************************************************)
Jan5 == Date(2024, 1, 5)
Jan6 == Date(2024, 1, 6)
Jan7 == Date(2024, 1, 7)
Feb5 == Date(2024, 2, 5)
NextJan5 == Date(2025, 1, 5)

\* the days of one calendar month of 31 days
January == {Date(2024, 1, d) : d \in 1 .. 31}

\* the marks Spec makes, as <<teacher_id, date>>: teacher 1 on three days of
\* January 2024, teacher 2 on one day of February
PayrollKeys == {<<1, Jan5>>, <<1, Jan6>>, <<1, Jan7>>, <<2, Feb5>>}

\* the periods Spec computes salaries for (the page offers months 1..12 and
\* years 2020..2029)
PayrollMonths == {1, 2}
PayrollYears == {2024}

\* the marks SpecAggregate makes: teacher 1 in two months and two years, teacher 2
\* in teacher 1's first period
AggregateKeys == {<<1, Jan5>>, <<1, Jan6>>, <<1, Feb5>>, <<1, NextJan5>>, <<2, Jan5>>}
AggregateMonths == {1, 2}
AggregateYears == {2024, 2025}

\* the marks SpecMarks makes
TeacherMarkKeys == {<<1, Jan5>>, <<1, Jan6>>, <<2, Jan5>>}
StudentMarkKeys == {<<1, Jan5>>, <<1, Jan6>>, <<2, Jan5>>}

\* the saves SpecSalary makes, as <<teacher_id, month>>: months 0 and 13 are
\* outside the page's 1..12
SaveArgs == {<<1, 1>>, <<1, 12>>, <<1, 0>>, <<1, 13>>, <<2, 1>>}
SaveYears == {2024}

\* (base_salary, deductions, net_salary) passed to save_salary_record: full pay,
\* one absent day, and a net_salary that is not base_salary - deductions
SaveTuples == {<<Rupees(30000), 0, Rupees(30000)>>,
               <<Rupees(30000), Rupees(1000), Rupees(29000)>>,
               <<Rupees(30000), Rupees(1000), Rupees(30000)>>}

\* what SpecSalary marks and computes
SalaryMarkKeys == {<<1, Jan5>>}
SalaryMonths == {1, 12}

\* the keys the histories are kept for
AllTeacherKeys == PayrollKeys \cup AggregateKeys \cup TeacherMarkKeys
AllStudentKeys == StudentMarkKeys
AllSaveKeys == {1, 2} \X {"January", "December"} \X SaveYears

(***************************************************************************)
(* failures of the store, and the (success, message) tuples                *)
(***************************************************************************)
\* the store answers the next statement normally, or raises an exception that
\* is no sqlite3.IntegrityError (sqlite3.OperationalError: database is locked)
NoFault == [raised |-> FALSE, message |-> ""]
Fault(message) == [raised |-> TRUE, message |-> message]
Faults == {"database is locked", "disk I/O error"}

\* return success, message; a message is the sequence of its parts
Result(ok, message) == [ok |-> ok, message |-> message]

\* f"Error: {str(e)}"
ErrorMessage(e) == <<"Error: ", e>>

(***************************************************************************)
(* teachers                                                                *)
(***************************************************************************)
TeacherRow(id, salary) == [teacher_id |-> id, salary |-> salary]

\* INSERT INTO teachers ...: the row gets the next AUTOINCREMENT teacher_id
insert_teacher(table, id, salary) == table \cup {TeacherRow(id, salary)}

\* UPDATE teachers SET ..., salary=? WHERE teacher_id=?
update_teacher_rows(table, id, salary) ==
    {IF r.teacher_id = id THEN TeacherRow(id, salary) ELSE r : r \in table}

\* DELETE FROM teachers WHERE teacher_id=?
delete_teacher_rows(table, id) == {r \in table : r.teacher_id # id}

add_teacher(salary) ==
    /\ next_teacher_id <= MaxTeacherId
    /\ IF fault.raised
       THEN /\ UNCHANGED <<teachers, next_teacher_id>>
            /\ last' = Op("add_teacher", NoArgs, NotRead,
                          Result(FALSE, ErrorMessage(fault.message)))
       ELSE /\ teachers' = insert_teacher(teachers, next_teacher_id, salary)
            /\ next_teacher_id' = next_teacher_id + 1
            /\ last' = Op("add_teacher", NoArgs, NotRead,
                          Result(TRUE, <<"Teacher added successfully!">>))
    /\ ui' = NoUi
    /\ UNCHANGED <<teacher_attendance, student_attendance, salary_records,
                   teacher_marks, student_marks, saved>>
    /\ UNCHANGED <<school, shell, store>>

update_teacher(teacher_id, salary) ==
    /\ IF fault.raised
       THEN /\ UNCHANGED teachers
            /\ last' = Op("update_teacher", NoArgs, NotRead,
                          Result(FALSE, ErrorMessage(fault.message)))
       ELSE /\ teachers' = update_teacher_rows(teachers, teacher_id, salary)
            /\ last' = Op("update_teacher", NoArgs, NotRead,
                          Result(TRUE, <<"Teacher updated successfully!">>))
    /\ ui' = NoUi
    /\ UNCHANGED <<next_teacher_id, teacher_attendance, student_attendance,
                   salary_records, teacher_marks, student_marks, saved>>
    /\ UNCHANGED <<school, shell, store>>

\* a bug: the delete cascades to the rows that reference the teacher
delete_teacher_cascade(teacher_id) ==
    /\ teachers' = delete_teacher_rows(teachers, teacher_id)
    /\ teacher_attendance' = {r \in teacher_attendance : r.teacher_id # teacher_id}
    /\ salary_records' = {r \in salary_records : r.teacher_id # teacher_id}
    /\ subjects' = {r \in subjects : r.teacher_id # teacher_id}
    /\ last' = Op("delete_teacher", NoArgs, NotRead,
                  Result(TRUE, <<"Teacher deleted successfully!">>))
    /\ ui' = NoUi
    /\ UNCHANGED <<next_teacher_id, student_attendance, teacher_marks, student_marks,
                   saved>>
    /\ UNCHANGED <<students, next_student_id, next_subject_id, student_results,
                   shell, store>>

delete_teacher(teacher_id) ==
    /\ IF fault.raised
       THEN /\ UNCHANGED teachers
            /\ last' = Op("delete_teacher", NoArgs, NotRead,
                          Result(FALSE, ErrorMessage(fault.message)))
       ELSE /\ teachers' = delete_teacher_rows(teachers, teacher_id)
            /\ last' = Op("delete_teacher", NoArgs, NotRead,
                          Result(TRUE, <<"Teacher deleted successfully!">>))
    /\ ui' = NoUi
    /\ UNCHANGED <<next_teacher_id, teacher_attendance, student_attendance,
                   salary_records, teacher_marks, student_marks, saved>>
    /\ UNCHANGED <<school, shell, store>>

(***************************************************************************)
(* attendance                                                              *)
(***************************************************************************)
TeacherAttendanceRow(id, text, status) ==
    [teacher_id |-> id, attendance_date |-> text, status |-> status]

StudentAttendanceRow(id, text, status) ==
    [student_id |-> id, attendance_date |-> text, status |-> status]

\* a bug: the row inserted with no conflicting row deleted (no UNIQUE constraint)
insert_teacher_attendance(table, id, text, status) ==
    table \cup {TeacherAttendanceRow(id, text, status)}

\* INSERT OR REPLACE INTO teacher_attendance under UNIQUE(teacher_id, attendance_date):
\* the rows in conflict with the new one are deleted, then it is inserted
replace_teacher_attendance(table, id, text, status) ==
    {r \in table : ~(r.teacher_id = id /\ r.attendance_date = text)}
        \cup {TeacherAttendanceRow(id, text, status)}

\* INSERT OR REPLACE INTO student_attendance under UNIQUE(student_id, attendance_date)
replace_student_attendance(table, id, text, status) ==
    {r \in table : ~(r.student_id = id /\ r.attendance_date = text)}
        \cup {StudentAttendanceRow(id, text, status)}

mark_teacher_attendance(teacher_id, attendance_date, status) ==
    /\ IF fault.raised
       THEN \* except Exception as e: return False
            /\ UNCHANGED <<teacher_attendance, teacher_marks>>
            /\ last' = Op("mark_teacher_attendance", NoArgs, NotRead, FALSE)
       ELSE /\ teacher_attendance' =
                   replace_teacher_attendance(teacher_attendance, teacher_id,
                                              isoformat(attendance_date), status)
            /\ teacher_marks' =
                   [teacher_marks EXCEPT ![<<teacher_id, attendance_date>>] = status]
            /\ last' = Op("mark_teacher_attendance", NoArgs, NotRead, TRUE)
    /\ ui' = NoUi
    /\ UNCHANGED <<teachers, next_teacher_id, student_attendance, salary_records,
                   student_marks, saved>>
    /\ UNCHANGED <<school, shell, store>>

mark_student_attendance(student_id, attendance_date, status) ==
    /\ IF fault.raised
       THEN \* except Exception as e: return False
            /\ UNCHANGED <<student_attendance, student_marks>>
            /\ last' = Op("mark_student_attendance", NoArgs, NotRead, FALSE)
       ELSE /\ student_attendance' =
                   replace_student_attendance(student_attendance, student_id,
                                              isoformat(attendance_date), status)
            /\ student_marks' =
                   [student_marks EXCEPT ![<<student_id, attendance_date>>] = status]
            /\ last' = Op("mark_student_attendance", NoArgs, NotRead, TRUE)
    /\ ui' = NoUi
    /\ UNCHANGED <<teachers, next_teacher_id, teacher_attendance, salary_records,
                   teacher_marks, saved>>
    /\ UNCHANGED <<school, shell, store>>

(***************************************************************************)
(* calculate_monthly_salary                                                *)
(***************************************************************************)
\* a bug: the WHERE clause without the strftime('%Y', ...) condition
attendance_query_any_year(table, teacher_id, month, year) ==
    LET rows == {r \in table :
                    /\ r.teacher_id = teacher_id
                    /\ strftime_m(r.attendance_date) = Format02d(month)}
    IN  Counts(Cardinality(rows),
               Cardinality({r \in rows : r.status = "Present"}),
               Cardinality({r \in rows : r.status = "Absent"}))

\* a bug: the WHERE clause without teacher_id = ?
attendance_query_all_teachers(table, teacher_id, month, year) ==
    LET rows == {r \in table :
                    /\ strftime_m(r.attendance_date) = Format02d(month)
                    /\ strftime_Y(r.attendance_date) = Str(year)}
    IN  Counts(Cardinality(rows),
               Cardinality({r \in rows : r.status = "Present"}),
               Cardinality({r \in rows : r.status = "Absent"}))

\* SELECT COUNT(*), COUNT(CASE WHEN status='Present' ...), COUNT(CASE WHEN
\* status='Absent' ...) FROM teacher_attendance WHERE teacher_id = ? AND
\* strftime('%m', attendance_date) = f'{month:02d}' AND strftime('%Y', ...) = str(year)
attendance_query(table, teacher_id, month, year) ==
    LET rows == {r \in table :
                    /\ r.teacher_id = teacher_id
                    /\ strftime_m(r.attendance_date) = Format02d(month)
                    /\ strftime_Y(r.attendance_date) = Str(year)}
    IN  Counts(Cardinality(rows),
               Cardinality({r \in rows : r.status = "Present"}),
               Cardinality({r \in rows : r.status = "Absent"}))

\* a bug: the per-day rate taken over the days marked instead of 30
salary_from_marked_days(base_salary, attendance) ==
    IF attendance.total_days = 0
    THEN Salary3(base_salary, 0, base_salary)
    ELSE LET per_day_salary == base_salary \div attendance.total_days
             deductions == per_day_salary * attendance.absent_days
         IN  Salary3(base_salary, deductions, base_salary - deductions)

\* a bug: a period with nothing marked paid as a period of absences
salary_from_unpaid_when_unmarked(base_salary, attendance) ==
    LET per_day_salary == base_salary \div DaysPerMonth
        deductions == IF attendance.total_days = 0
                      THEN base_salary
                      ELSE per_day_salary * attendance.absent_days
    IN  Salary3(base_salary, deductions, base_salary - deductions)

\* a bug: the deductions capped at base_salary
salary_from_capped(base_salary, attendance) ==
    IF attendance.total_days = 0
    THEN Salary3(base_salary, 0, base_salary)
    ELSE LET per_day_salary == base_salary \div DaysPerMonth
             uncapped == per_day_salary * attendance.absent_days
             deductions == IF uncapped > base_salary THEN base_salary ELSE uncapped
         IN  Salary3(base_salary, deductions, base_salary - deductions)

\* lines 568-579: full pay when nothing is marked, else base_salary / 30 per absent day
salary_from(base_salary, attendance) ==
    IF attendance.total_days = 0
    THEN Salary3(base_salary, 0, base_salary)
    ELSE LET absent_days == attendance.absent_days
             per_day_salary == base_salary \div DaysPerMonth
             deductions == per_day_salary * absent_days
             net_salary == base_salary - deductions
         IN  Salary3(base_salary, deductions, net_salary)

\* a bug: no check that the teacher row was found; a missing salary read as 0
salary_call_unchecked(teacher_rows, attendance_rows, teacher_id, month, year) ==
    LET result == {r \in teacher_rows : r.teacher_id = teacher_id}
        base_salary == IF result = {} THEN 0 ELSE (CHOOSE r \in result : TRUE).salary
        attendance == attendance_query(attendance_rows, teacher_id, month, year)
    IN  [attendance |-> attendance, ret |-> salary_from(base_salary, attendance)]

\* the function's locals and return value for one call
salary_call(teacher_rows, attendance_rows, teacher_id, month, year) ==
    LET result == {r \in teacher_rows : r.teacher_id = teacher_id}
    IN  IF result = {}
        THEN [attendance |-> NotRead, ret |-> None3]
        ELSE LET base_salary == (CHOOSE r \in result : TRUE).salary
                 attendance == attendance_query(attendance_rows, teacher_id, month, year)
             IN  [attendance |-> attendance, ret |-> salary_from(base_salary, attendance)]

\* a bug: the tuple computed is also written to salary_records
calculate_and_store(teacher_id, month, year) ==
    LET call == salary_call(teachers, teacher_attendance, teacher_id, month, year)
        c == call.ret
    IN  /\ last' = Op("calculate_monthly_salary",
                      [teacher_id |-> teacher_id, month |-> month, year |-> year],
                      call.attendance, c)
        /\ salary_records' =
               IF c.is_none THEN salary_records
               ELSE salary_records \cup
                        {[teacher_id |-> teacher_id, month |-> "January", year |-> year,
                          base_salary |-> c.base_salary, deductions |-> c.deductions,
                          net_salary |-> c.net_salary, paid_date |-> "NULL",
                          status |-> "Pending"]}
        /\ ui' = NoUi
        /\ UNCHANGED <<teachers, next_teacher_id, teacher_attendance, student_attendance,
                       teacher_marks, student_marks, saved>>
        /\ UNCHANGED <<school, shell, store>>

calculate_monthly_salary(teacher_id, month, year) ==
    LET call == salary_call(teachers, teacher_attendance, teacher_id, month, year)
    IN  /\ last' = Op("calculate_monthly_salary",
                      [teacher_id |-> teacher_id, month |-> month, year |-> year],
                      call.attendance, call.ret)
        /\ ui' = NoUi
        /\ UNCHANGED <<teachers, next_teacher_id, teacher_attendance, student_attendance,
                       salary_records, teacher_marks, student_marks, saved>>
        /\ UNCHANGED <<school, shell, store>>

\* a bug: the period tested in the ON clause of the LEFT JOIN, which keeps a row
\* of zeros for a teacher with nothing marked in the period
teacher_attendance_report_outer(teacher_rows, attendance_rows, month, year) ==
    LET joined(t) == {r \in attendance_rows :
                         /\ r.teacher_id = t.teacher_id
                         /\ strftime_m(r.attendance_date) = Format02d(month)
                         /\ strftime_Y(r.attendance_date) = Str(year)}
    IN  {[teacher_id |-> t.teacher_id,
          present_days |-> Cardinality({r \in joined(t) : r.status = "Present"}),
          absent_days |-> Cardinality({r \in joined(t) : r.status = "Absent"}),
          total_days |-> Cardinality(joined(t))] : t \in teacher_rows}

\* get_teacher_attendance_report: teachers LEFT JOIN teacher_attendance, filtered
\* on the attendance date (a teacher with no row in the period has no joined row
\* passing the WHERE), grouped by teacher
teacher_attendance_report(teacher_rows, attendance_rows, month, year) ==
    LET joined(t) == {r \in attendance_rows :
                         /\ r.teacher_id = t.teacher_id
                         /\ strftime_m(r.attendance_date) = Format02d(month)
                         /\ strftime_Y(r.attendance_date) = Str(year)}
    IN  {[teacher_id |-> t.teacher_id,
          present_days |-> Cardinality({r \in joined(t) : r.status = "Present"}),
          absent_days |-> Cardinality({r \in joined(t) : r.status = "Absent"}),
          total_days |-> Cardinality(joined(t))] :
            t \in {u \in teacher_rows : joined(u) # {}}}

get_teacher_attendance_report(month, year) ==
    /\ last' = Op("get_teacher_attendance_report",
                  [teacher_id |-> 0, month |-> month, year |-> year], NotRead,
                  teacher_attendance_report(teachers, teacher_attendance, month, year))
    /\ ui' = NoUi
    /\ UNCHANGED <<teachers, next_teacher_id, teacher_attendance, student_attendance,
                   salary_records, teacher_marks, student_marks, saved>>
    /\ UNCHANGED <<school, shell, store>>

(***************************************************************************)
(* salary_records                                                          *)
(***************************************************************************)
month_names == <<"January", "February", "March", "April", "May", "June",
                 "July", "August", "September", "October", "November", "December">>

\* Python list indexing seq[i]: 0-based, a negative i counts from the end, and an
\* i outside -len .. len-1 raises IndexError
python_index(seq, i) ==
    IF 0 <= i /\ i < Len(seq) THEN [raised |-> FALSE, value |-> seq[i + 1]]
    ELSE IF -Len(seq) <= i /\ i < 0 THEN [raised |-> FALSE, value |-> seq[Len(seq) + i + 1]]
    ELSE [raised |-> TRUE, value |-> "IndexError"]

NoPaidDate == "NULL"

\* a bug: the row stamped as paid when it is written
SalaryRowPaid(id, month_name, year, b, d, n, status) ==
    [teacher_id |-> id, month |-> month_name, year |-> year, base_salary |-> b,
     deductions |-> d, net_salary |-> n, paid_date |-> "2024-01-31", status |-> "Paid"]

SalaryRow(id, month_name, year, b, d, n, status) ==
    [teacher_id |-> id, month |-> month_name, year |-> year, base_salary |-> b,
     deductions |-> d, net_salary |-> n, paid_date |-> NoPaidDate, status |-> status]

\* a bug: the row inserted with no conflicting row deleted (no UNIQUE constraint)
insert_salary_record(table, id, month_name, year, b, d, n, status) ==
    table \cup {SalaryRow(id, month_name, year, b, d, n, status)}

\* INSERT OR REPLACE INTO salary_records under UNIQUE(teacher_id, month, year);
\* paid_date is not among the columns written and takes its default, NULL
replace_salary_record(table, id, month_name, year, b, d, n, status) ==
    {r \in table : ~(r.teacher_id = id /\ r.month = month_name /\ r.year = year)}
        \cup {SalaryRow(id, month_name, year, b, d, n, status)}

\* the body of save_salary_record: the table it leaves and what it returns;
\* an exception of the store or of the list index is caught: return False
save_call(table, id, month, year, b, d, n, status) ==
    LET month_name == python_index(month_names, month - 1)
    IN  IF fault.raised \/ month_name.raised
        THEN [ret |-> FALSE, rows |-> table]
        ELSE [ret |-> TRUE,
              rows |-> replace_salary_record(table, id, month_name.value, year,
                                             b, d, n, status)]

NoSave == [none |-> TRUE, again |-> FALSE, base_salary |-> 0, deductions |-> 0,
           net_salary |-> 0]
Saved(again, b, d, n) ==
    [none |-> FALSE, again |-> again, base_salary |-> b, deductions |-> d,
     net_salary |-> n]

\* history: the latest save that returned True, per key written, and whether the
\* key had been saved before
record_save(history, ok, id, month, year, b, d, n) ==
    IF ok
    THEN LET k == <<id, python_index(month_names, month - 1).value, year>>
         IN  [history EXCEPT ![k] = Saved(~history[k].none, b, d, n)]
    ELSE history

save_salary_record(teacher_id, month, year, base_salary, deductions, net_salary) ==
    LET call == save_call(salary_records, teacher_id, month, year,
                          base_salary, deductions, net_salary, "Pending")
    IN  /\ salary_records' = call.rows
        /\ saved' = record_save(saved, call.ret, teacher_id, month, year,
                                base_salary, deductions, net_salary)
        /\ last' = Op("save_salary_record",
                      [teacher_id |-> teacher_id, month |-> month, year |-> year],
                      NotRead, call.ret)
        /\ ui' = NoUi
        /\ UNCHANGED <<teachers, next_teacher_id, teacher_attendance, student_attendance,
                       teacher_marks, student_marks>>
        /\ UNCHANGED <<school, shell, store>>

(***************************************************************************)
(* salary_management_page, tab 'Generate Salary'                           *)
(***************************************************************************)
\* One run of the script.  clicked is the widget whose click triggered the run;
\* st.button(label) is True only in the run its own click triggered.  The
\* selectboxes offer the teachers of teachers_df, months 1..12, years 2020..2029.
salary_management_page(clicked, selected_teacher, month, year) ==
    LET button(label) == clicked = label
        args == [teacher_id |-> selected_teacher, month |-> month, year |-> year]
    IN  /\ teachers # {}
        /\ \E r \in teachers : r.teacher_id = selected_teacher
        /\ IF button("Calculate Salary")
           THEN LET call == salary_call(teachers, teacher_attendance,
                                        selected_teacher, month, year)
                    c == call.ret
                IN  IF ~c.is_none
                    THEN \* the metrics and the 'Save Salary Record' button are drawn
                         IF button("Save Salary Record")
                         THEN LET save == save_call(salary_records, selected_teacher, month,
                                                    year, c.base_salary, c.deductions,
                                                    c.net_salary, "Pending")
                              IN  /\ salary_records' = save.rows
                                  /\ saved' = record_save(saved, save.ret, selected_teacher,
                                                          month, year, c.base_salary,
                                                          c.deductions, c.net_salary)
                                  /\ ui' = [NoUi EXCEPT !.save_button = TRUE]
                                  /\ last' = Step(clicked, args,
                                                  {"calculate_monthly_salary",
                                                   "save_salary_record"},
                                                  call.attendance, c)
                         ELSE /\ ui' = [save_button |-> TRUE,
                                        teacher_id |-> selected_teacher,
                                        month |-> month, year |-> year, computed |-> c]
                              /\ last' = Step(clicked, args, {"calculate_monthly_salary"},
                                              call.attendance, c)
                              /\ UNCHANGED <<salary_records, saved>>
                    ELSE /\ ui' = NoUi
                         /\ last' = Step(clicked, args, {"calculate_monthly_salary"},
                                         call.attendance, c)
                         /\ UNCHANGED <<salary_records, saved>>
           ELSE \* nothing below the 'Calculate Salary' button runs or is drawn
                /\ ui' = NoUi
                /\ last' = Step(clicked, args, {}, NotRead, ui.computed)
                /\ UNCHANGED <<salary_records, saved>>
        /\ UNCHANGED <<teachers, next_teacher_id, teacher_attendance, student_attendance,
                       teacher_marks, student_marks>>
        /\ UNCHANGED <<school, shell, store>>

\* the operator picks a teacher and a period and clicks 'Calculate Salary'
click_calculate_salary(selected_teacher, month, year) ==
    salary_management_page("Calculate Salary", selected_teacher, month, year)

\* the operator clicks the 'Save Salary Record' button the last run drew; the
\* selectboxes keep their values
click_save_salary_record ==
    /\ ui.save_button
    /\ salary_management_page("Save Salary Record", ui.teacher_id, ui.month, ui.year)

(***************************************************************************)
(* students                                                                *)
(***************************************************************************)
\* the other columns of students (name, father_name, dob, phone, address) are
\* under no constraint and are read by no modelled statement
StudentRow(id, class_name, section, roll_number) ==
    [student_id |-> id, class |-> class_name, section |-> section,
     roll_number |-> roll_number]

\* a bug: the row inserted whatever the table holds (no UNIQUE constraint)
insert_student_unchecked(table, id, class_name, section, roll_number) ==
    [conflict |-> FALSE,
     rows |-> table \cup {StudentRow(id, class_name, section, roll_number)}]

\* INSERT INTO students under UNIQUE(class, section, roll_number): a row in
\* conflict makes the statement raise sqlite3.IntegrityError and write nothing
insert_student(table, id, class_name, section, roll_number) ==
    LET conflict == \E r \in table : /\ r.class = class_name
                                     /\ r.section = section
                                     /\ r.roll_number = roll_number
    IN  [conflict |-> conflict,
         rows |-> IF conflict THEN table
                  ELSE table \cup {StudentRow(id, class_name, section, roll_number)}]

add_student(class_name, section, roll_number) ==
    LET ins == insert_student(students, next_student_id, class_name, section,
                              roll_number)
        ret == IF fault.raised
               THEN Result(FALSE, ErrorMessage(fault.message))
               ELSE IF ins.conflict
               THEN Result(FALSE, <<"Error: Roll number already exists in this class and section!">>)
               ELSE Result(TRUE, <<"Student added successfully!">>)
    IN  /\ next_student_id <= MaxStudentId
        /\ students' = IF ret.ok THEN ins.rows ELSE students
        /\ next_student_id' = IF ret.ok THEN next_student_id + 1 ELSE next_student_id
        /\ last' = Op("add_student",
                      [class |-> class_name, section |-> section,
                       roll_number |-> roll_number],
                      NotRead, ret)
        /\ ui' = NoUi
        /\ UNCHANGED <<teachers, next_teacher_id, teacher_attendance, student_attendance,
                       salary_records, teacher_marks, student_marks, saved>>
        /\ UNCHANGED <<subjects, next_subject_id, student_results, shell, store>>

\* a bug: the row updated whatever the other rows hold (no UNIQUE constraint)
update_student_rows_unchecked(table, id, class_name, section, roll_number) ==
    [conflict |-> FALSE,
     rows |-> {IF r.student_id = id
               THEN StudentRow(id, class_name, section, roll_number) ELSE r : r \in table}]

\* UPDATE students SET ..., class=?, section=?, roll_number=? WHERE student_id=?
\* under UNIQUE(class, section, roll_number): another row in conflict with the
\* updated one makes the statement raise sqlite3.IntegrityError and write nothing
update_student_rows(table, id, class_name, section, roll_number) ==
    LET conflict == /\ \E r \in table : r.student_id = id
                    /\ \E r \in table : /\ r.student_id # id
                                        /\ r.class = class_name
                                        /\ r.section = section
                                        /\ r.roll_number = roll_number
    IN  [conflict |-> conflict,
         rows |-> IF conflict THEN table
                  ELSE {IF r.student_id = id
                        THEN StudentRow(id, class_name, section, roll_number)
                        ELSE r : r \in table}]

\* str(e) of the sqlite3.IntegrityError of the UNIQUE constraint of students
StudentsUniqueFailed ==
    "UNIQUE constraint failed: students.class, students.section, students.roll_number"

update_student(student_id, class_name, section, roll_number) ==
    LET upd == update_student_rows(students, student_id, class_name, section,
                                   roll_number)
        ret == IF fault.raised
               THEN Result(FALSE, ErrorMessage(fault.message))
               ELSE IF upd.conflict
               THEN Result(FALSE, ErrorMessage(StudentsUniqueFailed))
               ELSE Result(TRUE, <<"Student updated successfully!">>)
    IN  /\ students' = IF ret.ok THEN upd.rows ELSE students
        /\ last' = Op("update_student",
                      [student_id |-> student_id, class |-> class_name,
                       section |-> section, roll_number |-> roll_number],
                      NotRead, ret)
        /\ ui' = NoUi
        /\ UNCHANGED <<teachers, next_teacher_id, teacher_attendance, student_attendance,
                       salary_records, teacher_marks, student_marks, saved>>
        /\ UNCHANGED <<next_student_id, subjects, next_subject_id, student_results,
                       shell, store>>

\* DELETE FROM students WHERE student_id=?
delete_student_rows(table, id) == {r \in table : r.student_id # id}

delete_student(student_id) ==
    LET ret == IF fault.raised
               THEN Result(FALSE, ErrorMessage(fault.message))
               ELSE Result(TRUE, <<"Student deleted successfully!">>)
    IN  /\ students' = IF ret.ok THEN delete_student_rows(students, student_id)
                       ELSE students
        /\ last' = Op("delete_student", [student_id |-> student_id], NotRead, ret)
        /\ ui' = NoUi
        /\ UNCHANGED <<teachers, next_teacher_id, teacher_attendance, student_attendance,
                       salary_records, teacher_marks, student_marks, saved>>
        /\ UNCHANGED <<next_student_id, subjects, next_subject_id, student_results,
                       shell, store>>

(***************************************************************************)
(* subjects                                                                *)
(***************************************************************************)
SubjectRow(id, subject_name, class_name, teacher_id) ==
    [subject_id |-> id, subject_name |-> subject_name, class |-> class_name,
     teacher_id |-> teacher_id]

\* INSERT INTO subjects under UNIQUE(subject_name, class); the FOREIGN KEY on
\* teacher_id is not enforced (no PRAGMA foreign_keys)
insert_subject(table, id, subject_name, class_name, teacher_id) ==
    LET conflict == \E r \in table : /\ r.subject_name = subject_name
                                     /\ r.class = class_name
    IN  [conflict |-> conflict,
         rows |-> IF conflict THEN table
                  ELSE table \cup {SubjectRow(id, subject_name, class_name, teacher_id)}]

add_subject(subject_name, class_name, teacher_id) ==
    LET ins == insert_subject(subjects, next_subject_id, subject_name, class_name,
                              teacher_id)
        ret == IF fault.raised
               THEN Result(FALSE, ErrorMessage(fault.message))
               ELSE IF ins.conflict
               THEN Result(FALSE, <<"Error: Subject already exists for this class!">>)
               ELSE Result(TRUE, <<"Subject added successfully!">>)
    IN  /\ next_subject_id <= MaxSubjectId
        /\ subjects' = IF ret.ok THEN ins.rows ELSE subjects
        /\ next_subject_id' = IF ret.ok THEN next_subject_id + 1 ELSE next_subject_id
        /\ last' = Op("add_subject",
                      [subject_name |-> subject_name, class |-> class_name],
                      NotRead, ret)
        /\ ui' = NoUi
        /\ UNCHANGED <<teachers, next_teacher_id, teacher_attendance, student_attendance,
                       salary_records, teacher_marks, student_marks, saved>>
        /\ UNCHANGED <<students, next_student_id, student_results, shell, store>>

(***************************************************************************)
(* calculate_grade                                                         *)
(***************************************************************************)
\* A percentage is a float, held as the exact fraction num / den with den > 0.
\* A frame column read from the store also holds NaN (a missing value among
\* floats) or None (a column with no float in it).
Percent(num, den) == [kind |-> "float", num |-> num, den |-> den]
NaN == [kind |-> "nan", num |-> 0, den |-> 1]
PyNone == [kind |-> "None", num |-> 0, den |-> 1]

\* what leaves the call when None is compared with an int
TypeError == "TypeError"

\* percentage >= n on floats: False when percentage is NaN
ge(percentage, n) == percentage.kind = "float" /\ percentage.num >= n * percentage.den

\* percentage > n on floats
gt(percentage, n) == percentage.kind = "float" /\ percentage.num > n * percentage.den

\* a bug: every threshold exclusive
calculate_grade_exclusive(percentage) ==
    IF percentage.kind = "None" THEN TypeError
    ELSE IF gt(percentage, 90) THEN "A+"
    ELSE IF gt(percentage, 80) THEN "A"
    ELSE IF gt(percentage, 70) THEN "B"
    ELSE IF gt(percentage, 60) THEN "C"
    ELSE IF gt(percentage, 50) THEN "D"
    ELSE "F"

\* a bug: a percentage above 100 is taken for an entry error and failed
calculate_grade_clamped(percentage) ==
    IF percentage.kind = "None" THEN TypeError
    ELSE IF gt(percentage, 100) THEN "F"
    ELSE IF ge(percentage, 90) THEN "A+"
    ELSE IF ge(percentage, 80) THEN "A"
    ELSE IF ge(percentage, 70) THEN "B"
    ELSE IF ge(percentage, 60) THEN "C"
    ELSE IF ge(percentage, 50) THEN "D"
    ELSE "F"

calculate_grade(percentage) ==
    IF percentage.kind = "None" THEN TypeError
    ELSE IF ge(percentage, 90) THEN "A+"
    ELSE IF ge(percentage, 80) THEN "A"
    ELSE IF ge(percentage, 70) THEN "B"
    ELSE IF ge(percentage, 60) THEN "C"
    ELSE IF ge(percentage, 50) THEN "D"
    ELSE "F"

\* the call before this one, for the claims that relate two calls
NoEarlierCall == [called |-> FALSE, percentage |-> NaN, grade |-> ""]
EarlierCall(step) ==
    IF step.op = "calculate_grade"
    THEN [called |-> TRUE, percentage |-> step.args.percentage, grade |-> step.ret]
    ELSE NoEarlierCall

\* one call of calculate_grade
grade_call(percentage) ==
    /\ last' = Op("calculate_grade",
                  [percentage |-> percentage, earlier |-> EarlierCall(last)],
                  NotRead, calculate_grade(percentage))
    /\ ui' = NoUi
    /\ UNCHANGED <<teachers, next_teacher_id, teacher_attendance, student_attendance,
                   salary_records, teacher_marks, student_marks, saved>>
    /\ UNCHANGED <<school, shell, store>>

(***************************************************************************)
(* student_results                                                         *)
(***************************************************************************)
\* marks and total_marks are REAL; the model counts them in thousandths of a
\* mark, which leaves marks * 100.0 / total_marks as it is
ResultRow(student_id, subject_id, exam_type, marks, total_marks, text) ==
    [student_id |-> student_id, subject_id |-> subject_id, exam_type |-> exam_type,
     marks |-> marks, total_marks |-> total_marks, exam_date |-> text]

\* INSERT OR REPLACE INTO student_results under
\* UNIQUE(student_id, subject_id, exam_type, exam_date)
replace_student_result(table, student_id, subject_id, exam_type, marks, total_marks, text) ==
    {r \in table : ~(/\ r.student_id = student_id
                     /\ r.subject_id = subject_id
                     /\ r.exam_type = exam_type
                     /\ r.exam_date = text)}
        \cup {ResultRow(student_id, subject_id, exam_type, marks, total_marks, text)}

add_result(student_id, subject_id, exam_type, marks, total_marks, exam_date) ==
    LET ret == IF fault.raised
               THEN Result(FALSE, ErrorMessage(fault.message))
               ELSE Result(TRUE, <<"Result added successfully!">>)
    IN  /\ student_results' =
               IF ret.ok
               THEN replace_student_result(student_results, student_id, subject_id,
                                           exam_type, marks, total_marks,
                                           isoformat(exam_date))
               ELSE student_results
        /\ last' = Op("add_result", NoArgs, NotRead, ret)
        /\ ui' = NoUi
        /\ UNCHANGED <<teachers, next_teacher_id, teacher_attendance, student_attendance,
                       salary_records, teacher_marks, student_marks, saved>>
        /\ UNCHANGED <<students, next_student_id, subjects, next_subject_id, shell, store>>

\* n / d rounded to the nearest integer, halves away from zero
round_half_away(n, d) ==
    IF n >= 0 THEN (2 * n + d) \div (2 * d) ELSE -((2 * (-n) + d) \div (2 * d))

\* SQL ROUND(x, 2) of a float, and of NULL
ROUND_2(x) ==
    IF x.kind = "float" THEN Percent(round_half_away(100 * x.num, x.den), 100) ELSE x

\* SQL r.marks * 100.0 / r.total_marks: NULL when the divisor is 0
sql_percentage(marks, total_marks) ==
    IF total_marks = 0 THEN PyNone
    ELSE IF total_marks > 0 THEN Percent(marks * 100, total_marks)
    ELSE Percent(-(marks * 100), -total_marks)

\* pandas.read_sql_query on a REAL column: NULL among floats becomes NaN, a
\* column of NULLs only stays a column of None
read_sql_column(value, column) ==
    IF value.kind = "None" /\ \E v \in column : v.kind = "float" THEN NaN ELSE value

\* get_student_results: the frame of the query, one record per row.  subject_id
\* and exam_date are carried only to keep equal rows apart (the frame is a bag);
\* ORDER BY s.subject_name orders rows that are read one by one or summed.
student_results_frame(results, subject_rows, student_id, exam_type) ==
    LET joined == {<<r, s>> \in results \X subject_rows :
                      /\ r.subject_id = s.subject_id
                      /\ r.student_id = student_id
                      /\ r.exam_type = exam_type}
        percentage(j) == ROUND_2(sql_percentage(j[1].marks, j[1].total_marks))
        column == {percentage(j) : j \in joined}
    IN  {[subject_id |-> j[2].subject_id, exam_date |-> j[1].exam_date,
          subject_name |-> j[2].subject_name,
          marks |-> j[1].marks, total_marks |-> j[1].total_marks,
          percentage |-> read_sql_column(percentage(j), column)] : j \in joined}

\* results_df[column].sum()
RECURSIVE frame_sum(_, _)
frame_sum(frame, column) ==
    IF frame = {} THEN 0
    ELSE LET row == CHOOSE r \in frame : TRUE
         IN  row[column] + frame_sum(frame \ {row}, column)

\* (total_obtained / total_max * 100) if total_max > 0 else 0
overall_percentage(frame) ==
    LET total_obtained == frame_sum(frame, "marks")
        total_max == frame_sum(frame, "total_marks")
    IN  IF total_max > 0 THEN Percent(total_obtained * 100, total_max) ELSE Percent(0, 1)

\* what a run of a results tab leaves on the page
NoCard == [drawn |-> FALSE, raised |-> FALSE, rows |-> {},
           overall_percentage |-> NaN, overall_grade |-> ""]

\* results_display['grade'] = results_display['percentage'].apply(calculate_grade)
with_grade(frame) ==
    {[subject_id |-> r.subject_id, exam_date |-> r.exam_date,
      subject_name |-> r.subject_name, marks |-> r.marks,
      total_marks |-> r.total_marks, percentage |-> r.percentage,
      grade |-> calculate_grade(r.percentage)] : r \in frame}

\* student_results_page, tab 'Result Card', the run of a click on 'Generate
\* Result Card': the selectbox offers the students of students_df
generate_result_card(student_id, exam_type) ==
    LET results_df == student_results_frame(student_results, subjects, student_id,
                                            exam_type)
        results_display == with_grade(results_df)
        raised == \E r \in results_display : r.grade = TypeError
        card == IF results_df = {} THEN NoCard
                ELSE IF raised
                THEN \* the exception ends the run: nothing below is drawn
                     [NoCard EXCEPT !.raised = TRUE]
                ELSE [drawn |-> TRUE, raised |-> FALSE, rows |-> results_display,
                      overall_percentage |-> overall_percentage(results_df),
                      overall_grade |->
                          calculate_grade(overall_percentage(results_df))]
    IN  /\ \E s \in students : s.student_id = student_id
        /\ last' = Step("Generate Result Card",
                        [student_id |-> student_id, exam_type |-> exam_type],
                        {"get_student_results", "calculate_grade"}, NotRead, card)
        /\ ui' = NoUi
        /\ UNCHANGED <<teachers, next_teacher_id, teacher_attendance, student_attendance,
                       salary_records, teacher_marks, student_marks, saved>>
        /\ UNCHANGED <<school, shell, store>>

\* student_results_page, tab 'View Results': the frame as it is read, and the
\* overall percentage and grade
view_student_results(student_id, exam_type) ==
    LET results_df == student_results_frame(student_results, subjects, student_id,
                                            exam_type)
        card == IF results_df = {} THEN NoCard
                ELSE [drawn |-> TRUE, raised |-> FALSE, rows |-> results_df,
                      overall_percentage |-> overall_percentage(results_df),
                      overall_grade |->
                          calculate_grade(overall_percentage(results_df))]
    IN  /\ \E s \in students : s.student_id = student_id
        /\ last' = Step("View Results",
                        [student_id |-> student_id, exam_type |-> exam_type],
                        {"get_student_results", "calculate_grade"}, NotRead, card)
        /\ ui' = NoUi
        /\ UNCHANGED <<teachers, next_teacher_id, teacher_attendance, student_attendance,
                       salary_records, teacher_marks, student_marks, saved>>
        /\ UNCHANGED <<school, shell, store>>

(***************************************************************************)
(* authentication and the shell of main()                                  *)
(***************************************************************************)
\* hashlib.sha256(password.encode()).hexdigest(): the digest is held as the text
\* it was computed from under a tag; two passwords of the model never collide
hash_password(password) == <<"sha256", password>>

AdminRow(username, password) == [username |-> username, password |-> password]

\* init_database: the default admin is inserted when no row has username 'admin'
init_admins(table) ==
    IF \E r \in table : r.username = "admin" THEN table
    ELSE table \cup {AdminRow("admin", hash_password("admin123"))}

\* a bug: the tables dropped and created again at every construction
DatabaseManagerRecreate ==
    /\ teachers' = {}
    /\ teacher_attendance' = {}
    /\ student_attendance' = {}
    /\ salary_records' = {}
    /\ students' = {}
    /\ subjects' = {}
    /\ student_results' = {}
    /\ admins' = init_admins({})
    /\ last' = Op("DatabaseManager", NoArgs, NotRead, TRUE)
    /\ ui' = NoUi
    /\ UNCHANGED <<next_teacher_id, teacher_marks, student_marks, saved,
                   next_student_id, next_subject_id, session_state, rendered,
                   attendance_cache, store>>

\* DatabaseManager(): __init__ runs init_database on the database file that is
\* there: each CREATE TABLE IF NOT EXISTS finds its table and does nothing, and
\* the default admin is inserted when missing.  Every data function constructs
\* one before its statement; that construction leaves the tables as they are
\* (C28), and the actions of the data functions keep admins unchanged.
DatabaseManager ==
    /\ admins' = init_admins(admins)
    /\ last' = Op("DatabaseManager", NoArgs, NotRead, TRUE)
    /\ ui' = NoUi
    /\ UNCHANGED <<teachers, next_teacher_id, teacher_attendance, student_attendance,
                   salary_records, teacher_marks, student_marks, saved>>
    /\ UNCHANGED <<school, session_state, rendered, attendance_cache, store>>

\* a bug: the row looked up by username only
verify_login_by_username(username, password) ==
    \E r \in admins : r.username = username

\* SELECT * FROM admins WHERE username=? AND password=?; result is not None
verify_login(username, password) ==
    \E r \in admins : r.username = username /\ r.password = hash_password(password)

\* st.session_state.username is None or a text
NoUsername == [is_none |-> TRUE, value |-> ""]
Username(u) == [is_none |-> FALSE, value |-> u]

\* 'page' not in st.session_state
NoPage == "(not set)"

\* the pages of the sidebar
Pages == {"Dashboard", "Student Management", "Student Attendance", "Student Results",
          "Teacher Management", "Teacher Attendance", "Salary Management",
          "Subject Management"}

\* the quick actions of dashboard_page
QuickActions == {"Add Student", "Mark Attendance", "Enter Results"}
quick_action_page(label) ==
    IF label = "Add Student" THEN "Student Management"
    ELSE IF label = "Mark Attendance" THEN "Student Attendance"
    ELSE "Student Results"

\* init_session_state on a new session
NewSession == [logged_in |-> FALSE, username |-> NoUsername, page |-> NoPage]

\* what the operator types into login_form
LoginUsernames == {"", "admin", "Admin", "guest"}
LoginPasswords == {"", "admin123", "letmein"}

\* the page a run of main() draws from a session state, and the 'page' it sets
page_of(state) == IF state.page = NoPage THEN "Dashboard" ELSE state.page
draw(state) == IF ~state.logged_in THEN "Login" ELSE page_of(state)
after_sidebar(state) ==
    IF state.logged_in THEN [state EXCEPT !.page = page_of(state)] ELSE state

\* One click and the runs of main() it causes, st.rerun() included.  clicked is
\* a widget the last run drew: the form's 'Login' button on the login page, a
\* sidebar button or 'Logout' on every other page, a quick action on the dashboard.
main(clicked, username, password) ==
    LET args == [username |-> username, password |-> password]
    IN  /\ admins' = init_admins(admins)
        /\ IF ~session_state.logged_in
           THEN \* login_page()
                /\ clicked = "Login"
                /\ IF username # "" /\ password # ""
                   THEN IF verify_login(username, password)
                        THEN LET state == [session_state EXCEPT
                                               !.logged_in = TRUE,
                                               !.username = Username(username)]
                             IN  \* st.rerun(): the next run draws the sidebar and a page
                                 /\ session_state' = after_sidebar(state)
                                 /\ rendered' = draw(state)
                                 /\ last' = Step(clicked, args, {"verify_login"},
                                                 NotRead, TRUE)
                        ELSE /\ session_state' = session_state
                             /\ rendered' = "Login"
                             /\ last' = Step(clicked, args, {"verify_login"},
                                             NotRead, FALSE)
                   ELSE /\ session_state' = session_state
                        /\ rendered' = "Login"
                        /\ last' = Step(clicked, args, {}, NotRead, FALSE)
           ELSE \* the sidebar, then the selected page
                /\ username = "" /\ password = ""
                /\ \/ /\ clicked \in Pages
                      /\ session_state' = [session_state EXCEPT !.page = clicked]
                      /\ rendered' = clicked
                   \/ /\ clicked = "Logout"
                      /\ session_state' = [session_state EXCEPT
                                               !.logged_in = FALSE,
                                               !.username = NoUsername]
                      /\ rendered' = "Login"
                   \/ /\ clicked \in QuickActions
                      /\ rendered = "Dashboard"
                      /\ session_state' =
                             [session_state EXCEPT !.page = quick_action_page(clicked)]
                      /\ rendered' = quick_action_page(clicked)
                /\ last' = Step(clicked, args, {}, NotRead, TRUE)
        /\ ui' = NoUi
        /\ UNCHANGED <<teachers, next_teacher_id, teacher_attendance, student_attendance,
                       salary_records, teacher_marks, student_marks, saved>>
        /\ UNCHANGED <<school, attendance_cache, store>>

\* the operator submits login_form
click_login(username, password) == main("Login", username, password)

\* the operator clicks a sidebar button
click_page(page) == main(page, "", "")

\* the operator clicks 'Logout'
click_logout == main("Logout", "", "")

\* the operator clicks a quick action of the dashboard
click_quick_action(label) == main(label, "", "")

(***************************************************************************)
(* the store under failure and under two operators                         *)
(***************************************************************************)
\* the store starts to fail: every statement raises until it recovers
store_fails(message) ==
    /\ ~fault.raised
    /\ fault' = Fault(message)
    /\ UNCHANGED <<teachers, next_teacher_id, teacher_attendance, student_attendance,
                   salary_records, ui, last, teacher_marks, student_marks, saved>>
    /\ UNCHANGED <<school, shell, conns>>

store_recovers ==
    /\ fault.raised
    /\ fault' = NoFault
    /\ UNCHANGED <<teachers, next_teacher_id, teacher_attendance, student_attendance,
                   salary_records, ui, last, teacher_marks, student_marks, saved>>
    /\ UNCHANGED <<school, shell, conns>>

\* Two operators, each with an own session of the application; every call of a
\* data function opens an own connection.
Operators == {"operator 1", "operator 2"}

\* a connection with no statement executed, and one whose INSERT OR REPLACE has
\* run but is not committed: its write lock keeps every other writer out
\* key is the key of the histories teacher_marks and saved
Closed == [open |-> FALSE, table |-> "", key |-> <<>>, row |-> <<>>]
Uncommitted(table, key, row) ==
    [open |-> TRUE, table |-> table, key |-> key, row |-> row]

locked == \E o \in Operators : conns[o].open

\* a bug: the commit adds the row and deletes no row in conflict with it
commit_rows_append(table, name, row) ==
    IF name = "teacher_attendance"
    THEN insert_teacher_attendance(table, row[1], row[2], row[3])
    ELSE insert_salary_record(table, row[1], row[2], row[3], row[4], row[5], row[6],
                              row[7])

\* conn.commit(): the rows the uncommitted INSERT OR REPLACE leaves in its table
commit_rows(table, name, row) ==
    IF name = "teacher_attendance"
    THEN replace_teacher_attendance(table, row[1], row[2], row[3])
    ELSE replace_salary_record(table, row[1], row[2], row[3], row[4], row[5], row[6],
                               row[7])

\* mark_teacher_attendance up to cursor.execute: with the write lock taken the
\* statement waits; it runs once the lock is free, or the busy timeout ends and
\* sqlite3.OperationalError is caught: return False
execute_mark_teacher_attendance(o, teacher_id, attendance_date, status) ==
    /\ ~conns[o].open
    /\ IF locked
       THEN /\ last' = Step("mark_teacher_attendance", [operator |-> o],
                            {"mark_teacher_attendance"}, NotRead, FALSE)
            /\ UNCHANGED conns
       ELSE /\ conns' = [conns EXCEPT ![o] =
                            Uncommitted("teacher_attendance",
                                        <<teacher_id, attendance_date>>,
                                        <<teacher_id, isoformat(attendance_date), status>>)]
            /\ last' = Step("cursor.execute", [operator |-> o],
                            {"mark_teacher_attendance"}, NotRead, TRUE)
    /\ ui' = NoUi
    /\ UNCHANGED <<teachers, next_teacher_id, teacher_attendance, student_attendance,
                   salary_records, teacher_marks, student_marks, saved>>
    /\ UNCHANGED <<school, shell, fault>>

\* save_salary_record up to cursor.execute
execute_save_salary_record(o, teacher_id, month, year, base_salary, deductions, net_salary) ==
    LET month_name == python_index(month_names, month - 1)
    IN  /\ ~conns[o].open
        /\ IF month_name.raised \/ locked
           THEN /\ last' = Step("save_salary_record", [operator |-> o],
                                {"save_salary_record"}, NotRead, FALSE)
                /\ UNCHANGED conns
           ELSE /\ conns' = [conns EXCEPT ![o] =
                                Uncommitted("salary_records",
                                            <<teacher_id, month_name.value, year>>,
                                            <<teacher_id, month_name.value, year,
                                              base_salary, deductions, net_salary,
                                              "Pending">>)]
                /\ last' = Step("cursor.execute", [operator |-> o],
                                {"save_salary_record"}, NotRead, TRUE)
        /\ ui' = NoUi
        /\ UNCHANGED <<teachers, next_teacher_id, teacher_attendance, student_attendance,
                       salary_records, teacher_marks, student_marks, saved>>
        /\ UNCHANGED <<school, shell, fault>>

\* conn.commit(), conn.close(), return True
commit(o) ==
    LET c == conns[o]
    IN  /\ c.open
        /\ IF c.table = "teacher_attendance"
           THEN /\ teacher_attendance' = commit_rows(teacher_attendance, c.table, c.row)
                /\ teacher_marks' =
                       [teacher_marks EXCEPT ![c.key] = c.row[3]]
                /\ last' = Step("mark_teacher_attendance", [operator |-> o],
                                {"mark_teacher_attendance"}, NotRead, TRUE)
                /\ UNCHANGED <<salary_records, saved>>
           ELSE /\ salary_records' = commit_rows(salary_records, c.table, c.row)
                /\ saved' = [saved EXCEPT ![c.key] =
                                Saved(~saved[c.key].none, c.row[4], c.row[5], c.row[6])]
                /\ last' = Step("save_salary_record", [operator |-> o],
                                {"save_salary_record"}, NotRead, TRUE)
                /\ UNCHANGED <<teacher_attendance, teacher_marks>>
        /\ conns' = [conns EXCEPT ![o] = Closed]
        /\ ui' = NoUi
        /\ UNCHANGED <<teachers, next_teacher_id, student_attendance, student_marks>>
        /\ UNCHANGED <<school, shell, fault>>

(***************************************************************************)
(* the attendance pages, tab 'Mark Attendance'                             *)
(***************************************************************************)
\* the latest accepted mark of a key, for the keys the histories are kept for
note_mark(history, k, status) ==
    IF k \in DOMAIN history THEN [history EXCEPT ![k] = status] ELSE history

\* a bug: one failed call undoes the batch
attendance_loop_atomic(kind, table, history, attendance_data, attendance_date, failing) ==
    IF fault.raised \/ \E i \in DOMAIN attendance_data : attendance_data[i][1] \in failing
    THEN [rows |-> table, history |-> history, success_count |-> 0]
    ELSE [rows |-> {r \in table :
                       ~\E i \in DOMAIN attendance_data :
                            /\ r.attendance_date = isoformat(attendance_date)
                            /\ IF kind = "teacher"
                               THEN r.teacher_id = attendance_data[i][1]
                               ELSE r.student_id = attendance_data[i][1]}
                   \cup {IF kind = "teacher"
                         THEN TeacherAttendanceRow(attendance_data[i][1],
                                                   isoformat(attendance_date),
                                                   attendance_data[i][2])
                         ELSE StudentAttendanceRow(attendance_data[i][1],
                                                   isoformat(attendance_date),
                                                   attendance_data[i][2]) :
                            i \in DOMAIN attendance_data},
          history |-> [k \in DOMAIN history |->
                          IF \E i \in DOMAIN attendance_data :
                                 k = <<attendance_data[i][1], attendance_date>>
                          THEN attendance_data[CHOOSE i \in DOMAIN attendance_data :
                                   k = <<attendance_data[i][1], attendance_date>>][2]
                          ELSE history[k]],
          success_count |-> Len(attendance_data)]

\* for teacher_id, status in attendance_data: if mark_..._attendance(...):
\* success_count += 1.  failing holds the ids of the calls in which the store
\* raises; such a call returns False and the loop goes on.
RECURSIVE attendance_loop(_, _, _, _, _, _)
attendance_loop(kind, table, history, attendance_data, attendance_date, failing) ==
    IF attendance_data = <<>>
    THEN [rows |-> table, history |-> history, success_count |-> 0]
    ELSE LET id == Head(attendance_data)[1]
             status == Head(attendance_data)[2]
             ok == ~fault.raised /\ id \notin failing
             rows == IF ~ok THEN table
                     ELSE IF kind = "teacher"
                     THEN replace_teacher_attendance(table, id,
                                                     isoformat(attendance_date), status)
                     ELSE replace_student_attendance(table, id,
                                                     isoformat(attendance_date), status)
             marks == IF ok THEN note_mark(history, <<id, attendance_date>>, status)
                      ELSE history
             rest == attendance_loop(kind, rows, marks, Tail(attendance_data),
                                     attendance_date, failing)
         IN  [rows |-> rest.rows, history |-> rest.history,
              success_count |-> rest.success_count + (IF ok THEN 1 ELSE 0)]

\* the rows of a frame in the order of a column whose values differ: ascending
RECURSIVE order_by(_, _)
order_by(rows, column) ==
    IF rows = {} THEN <<>>
    ELSE LET first == CHOOSE r \in rows : \A q \in rows : r[column] <= q[column]
         IN  <<first>> \o order_by(rows \ {first}, column)

Reverse(seq) == [i \in DOMAIN seq |-> seq[Len(seq) + 1 - i]]

\* what the form shows after its loop: st.success when every call returned
\* True, else st.warning with the count of successes out of the batch size
BatchReport(success_count, size) ==
    [message |-> IF success_count = size THEN "success" ELSE "warning",
     success_count |-> success_count, size |-> size]

\* teacher_attendance_page, the run of a click on 'Save Attendance' with a date
\* and a radio choice per teacher of teachers_df (ORDER BY teacher_id DESC)
save_teacher_attendance(attendance_date, statuses, failing) ==
    LET teachers_df == Reverse(order_by(teachers, "teacher_id"))
        attendance_data == [i \in DOMAIN teachers_df |->
                               <<teachers_df[i].teacher_id,
                                 statuses[teachers_df[i].teacher_id]>>]
        loop == attendance_loop("teacher", teacher_attendance, teacher_marks,
                                attendance_data, attendance_date, failing)
    IN  /\ teachers # {}
        /\ teacher_attendance' = loop.rows
        /\ teacher_marks' = loop.history
        /\ last' = Step("Save Attendance",
                        [kind |-> "teacher", attendance_data |-> attendance_data,
                         attendance_date |-> attendance_date, failing |-> failing],
                        {"mark_teacher_attendance"}, NotRead,
                        BatchReport(loop.success_count, Len(attendance_data)))
        /\ ui' = NoUi
        /\ UNCHANGED <<teachers, next_teacher_id, student_attendance, salary_records,
                       student_marks, saved>>
        /\ UNCHANGED <<school, shell, store>>

\* st.session_state of student_attendance_page: attendance_df (with 'in
\* st.session_state' as has_df) and attendance_date; load is the history of the
\* latest click on 'Load Students': the selection and the students it selected
NoDate == [is_none |-> TRUE, value |-> Date(1, 1, 1)]
SomeDate(d) == [is_none |-> FALSE, value |-> d]
NoLoad == [clicked |-> FALSE, class |-> "", section |-> "", attendance_date |-> NoDate,
           students |-> {}]
NoGrid == [has_df |-> FALSE, attendance_df |-> <<>>, attendance_date |-> NoDate,
           load |-> NoLoad]

\* get_student_attendance: the students of the class and section with the status
\* of the date, 'Not Marked' for none, ORDER BY s.roll_number
get_student_attendance(class_name, section, attendance_date) ==
    LET rows == {[student_id |-> s.student_id, roll_number |-> s.roll_number,
                  status |-> IF \E sa \in student_attendance :
                                    /\ sa.student_id = s.student_id
                                    /\ sa.attendance_date = isoformat(attendance_date)
                             THEN (CHOOSE sa \in student_attendance :
                                       /\ sa.student_id = s.student_id
                                       /\ sa.attendance_date = isoformat(attendance_date)).status
                             ELSE NoStatus] :
                    s \in {t \in students : t.class = class_name /\ t.section = section}}
    IN  order_by(rows, "roll_number")

\* student_attendance_page, the run of a click on 'Load Students'
click_load_students(class_name, section, attendance_date) ==
    LET df == get_student_attendance(class_name, section, attendance_date)
        load == [clicked |-> TRUE, class |-> class_name, section |-> section,
                 attendance_date |-> SomeDate(attendance_date),
                 students |-> {df[i].student_id : i \in DOMAIN df}]
    IN  /\ attendance_cache' =
               IF df # <<>>
               THEN [has_df |-> TRUE, attendance_df |-> df,
                     attendance_date |-> SomeDate(attendance_date), load |-> load]
               ELSE [attendance_cache EXCEPT !.load = load]
        /\ last' = Step("Load Students",
                        [class |-> class_name, section |-> section,
                         attendance_date |-> attendance_date],
                        {"get_student_attendance"}, NotRead, df # <<>>)
        /\ ui' = NoUi
        /\ UNCHANGED <<teachers, next_teacher_id, teacher_attendance, student_attendance,
                       salary_records, teacher_marks, student_marks, saved>>
        /\ UNCHANGED <<school, admins, session_state, rendered, store>>

\* student_attendance_page, the run of a click on 'Save Attendance' of the form
\* drawn from the cached frame, with a radio choice per row
save_student_attendance(statuses, failing) ==
    LET df == attendance_cache.attendance_df
        attendance_data == [i \in DOMAIN df |->
                               <<df[i].student_id, statuses[df[i].student_id]>>]
        loop == attendance_loop("student", student_attendance, student_marks,
                                attendance_data, attendance_cache.attendance_date.value,
                                failing)
        report == BatchReport(loop.success_count, Len(attendance_data))
    IN  /\ attendance_cache.has_df
        /\ student_attendance' = loop.rows
        /\ student_marks' = loop.history
        /\ attendance_cache' =
               IF report.message = "success"
               THEN \* del st.session_state.attendance_df
                    [attendance_cache EXCEPT !.has_df = FALSE, !.attendance_df = <<>>]
               ELSE attendance_cache
        /\ last' = Step("Save Attendance",
                        [kind |-> "student", attendance_data |-> attendance_data,
                         attendance_date |-> attendance_cache.attendance_date.value,
                         failing |-> failing],
                        {"mark_student_attendance"}, NotRead, report)
        /\ ui' = NoUi
        /\ UNCHANGED <<teachers, next_teacher_id, teacher_attendance, salary_records,
                       teacher_marks, saved>>
        /\ UNCHANGED <<school, admins, session_state, rendered, store>>

(***************************************************************************)
(* Specifications                                                          *)
(***************************************************************************)
\* the database DatabaseManager creates, an untouched session
Init ==
    /\ teachers = {}
    /\ next_teacher_id = 1
    /\ teacher_attendance = {}
    /\ student_attendance = {}
    /\ salary_records = {}
    /\ ui = NoUi
    /\ last = Step("init", NoArgs, {}, NotRead, TRUE)
    /\ teacher_marks = [k \in AllTeacherKeys |-> NoStatus]
    /\ student_marks = [k \in AllStudentKeys |-> NoStatus]
    /\ saved = [k \in AllSaveKeys |-> NoSave]
    /\ students = {}
    /\ next_student_id = 1
    /\ subjects = {}
    /\ next_subject_id = 1
    /\ student_results = {}
    /\ admins = init_admins({})
    /\ session_state = NewSession
    /\ rendered = "Login"
    /\ attendance_cache = NoGrid
    /\ fault = NoFault
    /\ conns = [o \in Operators |-> Closed]

\* Spec: teachers, their attendance and the salary computed from them
Next ==
    \/ \E salary \in AddSalaries : add_teacher(salary)
    \/ \E id \in 1 .. MaxTeacherId, salary \in UpdateSalaries : update_teacher(id, salary)
    \/ \E id \in 1 .. MaxTeacherId : delete_teacher(id)
    \/ \E k \in PayrollKeys, status \in Statuses :
           mark_teacher_attendance(k[1], k[2], status)
    \/ \E id \in TeacherArgs, month \in PayrollMonths, year \in PayrollYears :
           calculate_monthly_salary(id, month, year)

Spec == Init /\ [][Next]_vars

\* SpecSalary: the salary page and the salary records
NextSalary ==
    \/ \E salary \in AddSalaries : add_teacher(salary)
    \/ \E k \in SalaryMarkKeys, status \in Statuses :
           mark_teacher_attendance(k[1], k[2], status)
    \/ \E k \in SalaryMarkKeys, month \in SalaryMonths, year \in SaveYears :
           calculate_monthly_salary(k[1], month, year)
    \/ \E a \in SaveArgs, year \in SaveYears, t \in SaveTuples :
           save_salary_record(a[1], a[2], year, t[1], t[2], t[3])
    \/ \E id \in 1 .. MaxTeacherId, month \in SalaryMonths, year \in SaveYears :
           click_calculate_salary(id, month, year)
    \/ click_save_salary_record

SpecSalary == Init /\ [][NextSalary]_vars

\* SpecMarks: attendance marks of teachers and students
NextMarks ==
    \/ \E k \in TeacherMarkKeys, status \in Statuses :
           mark_teacher_attendance(k[1], k[2], status)
    \/ \E k \in StudentMarkKeys, status \in Statuses :
           mark_student_attendance(k[1], k[2], status)

SpecMarks == Init /\ [][NextMarks]_vars

\* SpecAggregate: the attendance counted per teacher, month and year
NextAggregate ==
    \/ \E salary \in AddSalaries : add_teacher(salary)
    \/ \E k \in AggregateKeys, status \in Statuses :
           mark_teacher_attendance(k[1], k[2], status)
    \/ \E id \in {1, 2}, month \in AggregateMonths, year \in AggregateYears :
           calculate_monthly_salary(id, month, year)
    \/ \E month \in AggregateMonths, year \in AggregateYears :
           get_teacher_attendance_report(month, year)

SpecAggregate == Init /\ [][NextAggregate]_vars

\* SpecGrade: calls of calculate_grade.  The percentages, in halves: below 0, 0,
\* each threshold and the half point under it, 100 and above 100
GradePercents ==
    {Percent(n, 2) : n \in {-10, 0, 99, 100, 119, 120, 139, 140, 159, 160, 179, 180,
                            200, 210}}

NextGrade == \E percentage \in GradePercents : grade_call(percentage)

SpecGrade == Init /\ [][NextGrade]_vars

\* SpecResults: students, subjects, exam results and the results page.
\* (class, section, roll_number) of the students and (subject_name, class) of the
\* subjects that are added
StudentKeys == {<<"9", "A", 1>>, <<"9", "A", 2>>}
SubjectKeys == {<<"English", "9">>, <<"Mathematics", "9">>}

\* (marks, total_marks) in thousandths of a mark: 89.996 of 100, 45 of 50,
\* 45 of 90, and 45 of 0 (the form asks for a total of 1 or more, add_result
\* for none)
MarksPairs == {<<89996, 100000>>, <<45000, 50000>>, <<45000, 90000>>, <<45000, 0>>}

NextResults ==
    \/ \E k \in StudentKeys : add_student(k[1], k[2], k[3])
    \/ \E k \in SubjectKeys : add_subject(k[1], k[2], 1)
    \/ \E subject_id \in {1, 2}, m \in MarksPairs :
           add_result(1, subject_id, "Mid Term", m[1], m[2], Jan5)
    \/ generate_result_card(1, "Mid Term")
    \/ view_student_results(1, "Mid Term")

SpecResults == Init /\ [][NextResults]_vars

\* SpecFaults: every write of the data layer, with a store that fails and recovers
NextFaults ==
    \/ \E message \in Faults : store_fails(message)
    \/ store_recovers
    \/ add_student("9", "A", 1)
    \/ add_subject("English", "9", 1)
    \/ add_result(1, 1, "Mid Term", 45000, 50000, Jan5)
    \/ \E salary \in AddSalaries : add_teacher(salary)
    \/ update_teacher(1, Rupees(3100))
    \/ delete_teacher(1)
    \/ \E status \in Statuses : mark_teacher_attendance(1, Jan5, status)
    \/ mark_student_attendance(1, Jan5, "Present")
    \/ save_salary_record(1, 1, 2024, Rupees(30000), 0, Rupees(30000))

SpecFaults == Init /\ [][NextFaults]_vars

\* SpecConcurrent: two operators write the same attendance mark and the same
\* salary record, each statement and each commit a step of its own
NextConcurrent ==
    \/ \E o \in Operators, status \in Statuses :
           execute_mark_teacher_attendance(o, 1, Jan5, status)
    \/ \E o \in Operators, t \in SaveTuples :
           execute_save_salary_record(o, 1, 1, 2024, t[1], t[2], t[3])
    \/ \E o \in Operators : commit(o)

SpecConcurrent == Init /\ [][NextConcurrent]_vars

\* SpecLogin: the clicks of one session on the login form and the sidebar
NextLogin ==
    \/ \E username \in LoginUsernames, password \in LoginPasswords :
           click_login(username, password)
    \/ \E page \in Pages : click_page(page)
    \/ click_logout
    \/ \E label \in QuickActions : click_quick_action(label)

SpecLogin == Init /\ [][NextLogin]_vars

\* SpecStatus: the data functions called with a status the pages do not offer
AnyStatuses == Statuses \cup {"Late"}
StatusKeys == {<<1, Jan5>>, <<1, Jan6>>}

NextStatus ==
    \/ \E salary \in AddSalaries : add_teacher(salary)
    \/ \E k \in StatusKeys, status \in AnyStatuses :
           mark_teacher_attendance(k[1], k[2], status)
    \/ \E k \in StatusKeys, status \in AnyStatuses :
           mark_student_attendance(k[1], k[2], status)
    \/ calculate_monthly_salary(1, 1, 2024)
    \/ get_teacher_attendance_report(1, 2024)

SpecStatus == Init /\ [][NextStatus]_vars

\* SpecBatch: the 'Save Attendance' forms of the two attendance pages, with
\* calls that fail within a batch
NextBatch ==
    \/ \E salary \in AddSalaries : add_teacher(salary)
    \/ \E statuses \in [1 .. MaxTeacherId -> Statuses], failing \in SUBSET {1, 2} :
           save_teacher_attendance(Jan5, statuses, failing)
    \/ add_student("9", "A", 1)
    \/ click_load_students("9", "A", Jan5)
    \/ \E statuses \in [1 .. MaxStudentId -> Statuses], failing \in SUBSET {1} :
           save_student_attendance(statuses, failing)

SpecBatch == Init /\ [][NextBatch]_vars

\* SpecGrid: the student attendance page with its selectors changed between
\* the clicks, over students of two classes
GridClasses == {<<"9", "A">>, <<"10", "A">>}
GridDates == {Jan5, Jan6}

NextGrid ==
    \/ \E c \in GridClasses : add_student(c[1], c[2], 1)
    \/ \E c \in GridClasses, d \in GridDates : click_load_students(c[1], c[2], d)
    \/ \E statuses \in [1 .. MaxStudentId -> Statuses], failing \in SUBSET {1} :
           save_student_attendance(statuses, failing)

SpecGrid == Init /\ [][NextGrid]_vars

\* SpecMonth: teacher 1 marked on the days of January 2024, one day after the
\* other, 'Present' on at most one of them, and the salary of the month
NextMonth ==
    \/ \E salary \in AddSalaries : add_teacher(salary)
    \/ \E salary \in UpdateSalaries : update_teacher(1, salary)
    \/ \E d \in January, status \in Statuses :
           /\ d.day = Cardinality(teacher_attendance) + 1
           /\ status = "Present" => \A r \in teacher_attendance : r.status # "Present"
           /\ mark_teacher_attendance(1, d, status)
    \/ calculate_monthly_salary(1, 1, 2024)

SpecMonth == Init /\ [][NextMonth]_vars

\* SpecDelete: teachers added and deleted, with attendance, salary records and
\* subjects that reference them
NextDelete ==
    \/ \E salary \in AddSalaries : add_teacher(salary)
    \/ \E id \in 1 .. MaxTeacherId : delete_teacher(id)
    \/ \E id \in {1, 2} : mark_teacher_attendance(id, Jan5, "Absent")
    \/ save_salary_record(1, 1, 2024, Rupees(30000), Rupees(1000), Rupees(29000))
    \/ add_subject("English", "9", 1)

SpecDelete == Init /\ [][NextDelete]_vars

\* SpecConstruct: DatabaseManager constructed again between writes to the tables
NextConstruct ==
    \/ DatabaseManager
    \/ \E salary \in AddSalaries : add_teacher(salary)
    \/ \E status \in Statuses : mark_teacher_attendance(1, Jan5, status)
    \/ mark_student_attendance(1, Jan5, "Present")
    \/ add_student("9", "A", 1)
    \/ add_subject("English", "9", 1)
    \/ add_result(1, 1, "Mid Term", 45000, 50000, Jan5)
    \/ save_salary_record(1, 1, 2024, Rupees(30000), 0, Rupees(30000))
    \/ \E password \in LoginPasswords : click_login("admin", password)

SpecConstruct == Init /\ [][NextConstruct]_vars

\* SpecStudents: the students table under add, update and delete
\* (class, section, roll_number) given to add_student and update_student
RosterKeys == {<<"9", "A", 1>>, <<"9", "A", 2>>, <<"9", "B", 1>>, <<"10", "A", 1>>}

NextStudents ==
    \/ \E k \in RosterKeys : add_student(k[1], k[2], k[3])
    \/ \E id \in 1 .. MaxStudentId, k \in RosterKeys :
           update_student(id, k[1], k[2], k[3])
    \/ \E id \in 1 .. MaxStudentId : delete_student(id)

SpecStudents == Init /\ [][NextStudents]_vars

(***************************************************************************)
(* What the claims read                                                    *)
(***************************************************************************)
IsCalculate(step) == step.op = "calculate_monthly_salary"

TeacherExists(id) == \E r \in teachers : r.teacher_id = id

SalaryOf(id) == (CHOOSE r \in teachers : r.teacher_id = id).salary

\* the days of (month, year) on which the teacher has a mark, by the history
MarkedIn(id, month, year) ==
    {k \in DOMAIN teacher_marks :
        /\ k[1] = id /\ k[2].month = month /\ k[2].year = year
        /\ teacher_marks[k] # NoStatus}

AbsentIn(id, month, year) ==
    {k \in MarkedIn(id, month, year) : teacher_marks[k] = "Absent"}

PresentIn(id, month, year) ==
    {k \in MarkedIn(id, month, year) : teacher_marks[k] = "Present"}

MarkedOfCall(step) == MarkedIn(step.args.teacher_id, step.args.month, step.args.year)
AbsentOfCall(step) == AbsentIn(step.args.teacher_id, step.args.month, step.args.year)
PresentOfCall(step) == PresentIn(step.args.teacher_id, step.args.month, step.args.year)

DataTables == <<teachers, next_teacher_id, teacher_attendance, student_attendance,
                salary_records>>

(***************************************************************************)
(* Claims                                                                  *)
(***************************************************************************)
\* C1: for an existing teacher and a period in which the teacher has at least one
\* attendance record, calculate_monthly_salary returns deductions =
\* (base_salary / 30) * absent_days and net_salary = base_salary - deductions,
\* absent_days being the teacher's 'Absent' marks of that month and year; the
\* divisor is 30 and the present days do not enter.
C1_DeductionPerAbsentDay ==
    (/\ IsCalculate(last)
     /\ TeacherExists(last.args.teacher_id)
     /\ MarkedOfCall(last) # {})
    => LET base_salary == SalaryOf(last.args.teacher_id)
           absent_days == Cardinality(AbsentOfCall(last))
           deductions == (base_salary \div 30) * absent_days
       IN  last.ret = Salary3(base_salary, deductions, base_salary - deductions)

\* C1 witness: the scenario of the specification, 30000 rupees and two absent days
\* (beside a present day): 2000 rupees deducted, 28000 paid
C1_Witness ==
    /\ IsCalculate(last)
    /\ TeacherExists(last.args.teacher_id)
    /\ Cardinality(AbsentOfCall(last)) = 2
    /\ Cardinality(PresentOfCall(last)) = 1
    /\ last.ret = Salary3(Rupees(30000), Rupees(2000), Rupees(28000))

\* C2: for an existing teacher and a period in which the teacher has no attendance
\* record, calculate_monthly_salary returns deductions = 0 and net_salary =
\* base_salary, whatever is recorded for other teachers or other periods.
C2_FullPayWhenUnmarked ==
    (/\ IsCalculate(last)
     /\ TeacherExists(last.args.teacher_id)
     /\ MarkedOfCall(last) = {})
    => LET base_salary == SalaryOf(last.args.teacher_id)
       IN  last.ret = Salary3(base_salary, 0, base_salary)

\* C2 witness: teacher 1 has nothing in February 2024, where teacher 2 is absent,
\* and is absent in January
C2_Witness ==
    /\ IsCalculate(last)
    /\ last.args = [teacher_id |-> 1, month |-> 2, year |-> 2024]
    /\ TeacherExists(1)
    /\ MarkedIn(1, 2, 2024) = {}
    /\ AbsentIn(2, 2, 2024) # {}
    /\ AbsentIn(1, 1, 2024) # {}
    /\ last.ret.net_salary = last.ret.base_salary

\* C3: after any sequence of add_teacher, update_teacher and
\* mark_teacher_attendance calls, every non-None result of
\* calculate_monthly_salary has deductions >= 0 and net_salary <= base_salary.
C3_DeductionsNeverNegative ==
    (IsCalculate(last) /\ ~last.ret.is_none)
    => (last.ret.deductions >= 0 /\ last.ret.net_salary <= last.ret.base_salary)

\* C4: when the teacher identifier matches no row of teachers (never added, or
\* deleted), calculate_monthly_salary returns (None, None, None), runs no
\* attendance query and leaves every table as it was.
C4_UnknownTeacherReturnsNone ==
    [][(IsCalculate(last') /\ ~TeacherExists(last'.args.teacher_id))
       => (/\ last'.ret = None3
           /\ ~last'.attendance.read
           /\ UNCHANGED DataTables)]_vars

\* C4 witness: the call is made for a teacher who was added, marked absent and
\* then deleted
C4_Witness ==
    /\ IsCalculate(last)
    /\ last.args.teacher_id < next_teacher_id
    /\ ~TeacherExists(last.args.teacher_id)
    /\ AbsentOfCall(last) # {}
    /\ last.ret.is_none

\* C10 as stated: for the same teacher, the output of calculate_monthly_salary on
\* a period with no attendance record differs from its output on a period with
\* 'Present' records and no 'Absent' record.  Read on two calls in a row.
C10_UnmarkedDistinguishable ==
    [][(/\ IsCalculate(last) /\ IsCalculate(last')
        /\ last'.args.teacher_id = last.args.teacher_id
        /\ TeacherExists(last.args.teacher_id)
        /\ MarkedOfCall(last) = {}
        /\ PresentOfCall(last') # {} /\ AbsentOfCall(last') = {})
       => last'.ret # last.ret]_vars

\* C10 amended: in those two calls the attendance row fetched tells the periods
\* apart (total_days = 0 against total_days >= 1), and the tuple returned does
\* not: both calls return (base_salary, 0, base_salary).
C10_UnmarkedSameAsFullAttendance ==
    [][(/\ IsCalculate(last) /\ IsCalculate(last')
        /\ last'.args.teacher_id = last.args.teacher_id
        /\ TeacherExists(last.args.teacher_id)
        /\ MarkedOfCall(last) = {}
        /\ PresentOfCall(last') # {} /\ AbsentOfCall(last') = {})
       => (/\ last.attendance.total_days = 0
           /\ last'.attendance.total_days >= 1
           /\ last'.ret = last.ret
           /\ last'.ret = Salary3(SalaryOf(last.args.teacher_id), 0,
                                  SalaryOf(last.args.teacher_id)))]_vars

\* C10 witness: a salary computed for a period of present days only, while another
\* period of the same teacher has no mark at all
C10_Witness ==
    /\ IsCalculate(last)
    /\ TeacherExists(last.args.teacher_id)
    /\ PresentOfCall(last) # {} /\ AbsentOfCall(last) = {}
    /\ \E month \in PayrollMonths :
           MarkedIn(last.args.teacher_id, month, last.args.year) = {}
    /\ last.ret.deductions = 0

\* C5: calculate_monthly_salary never writes: a step that calls it, and does not
\* call save_salary_record, leaves salary_records, teachers and
\* teacher_attendance as they were; and salary_records changes only in a step
\* that calls save_salary_record.
C5_CalculateNeverWrites ==
    [][(/\ last'.calls = {"calculate_monthly_salary"}
           => UNCHANGED <<salary_records, teachers, teacher_attendance>>
        /\ salary_records' # salary_records
           => "save_salary_record" \in last'.calls)]_vars

\* C5 witness: a salary with a deduction has just been computed, by the function
\* or by the page, while a record is stored
C5_Witness ==
    /\ last.calls = {"calculate_monthly_salary"}
    /\ ~last.ret.is_none
    /\ last.ret.deductions > 0
    /\ salary_records # {}

\* C6: in the Salary Management page, whenever the operator clicks 'Calculate
\* Salary' for an existing teacher and then 'Save Salary Record',
\* save_salary_record is invoked with the computed tuple and a record for that
\* (teacher, month, year) is stored.
C6_SaveClickStoresRecord ==
    (last.op = "Save Salary Record")
    => (/\ "save_salary_record" \in last.calls
        /\ \E r \in salary_records :
               /\ r.teacher_id = last.args.teacher_id
               /\ r.month = month_names[last.args.month]
               /\ r.year = last.args.year
               /\ r.base_salary = last.ret.base_salary
               /\ r.deductions = last.ret.deductions
               /\ r.net_salary = last.ret.net_salary)

RowsOfKey(k) == {r \in salary_records : <<r.teacher_id, r.month, r.year>> = k}

\* C7: after any sequence of save_salary_record calls, salary_records holds at most
\* one row per (teacher_id, month, year), carrying the base_salary, deductions
\* and net_salary of the latest save for that key that returned True; a key
\* never saved has no row.
C7_OneRecordPerPeriod ==
    /\ \A r \in salary_records : <<r.teacher_id, r.month, r.year>> \in DOMAIN saved
    /\ \A k \in DOMAIN saved :
           /\ Cardinality(RowsOfKey(k)) <= 1
           /\ saved[k].none => RowsOfKey(k) = {}
           /\ ~saved[k].none =>
                  \E r \in RowsOfKey(k) :
                      /\ r.base_salary = saved[k].base_salary
                      /\ r.deductions = saved[k].deductions
                      /\ r.net_salary = saved[k].net_salary

\* C7 witness: a key saved a second time, with a deduction, after another key was
\* saved, and a save that failed
C7_Witness ==
    /\ last.op = "save_salary_record" /\ last.ret = FALSE
    /\ saved[<<1, "January", 2024>>].again
    /\ saved[<<1, "January", 2024>>].deductions > 0
    /\ ~saved[<<2, "January", 2024>>].none
    /\ Cardinality(salary_records) = 2

TeacherRowsOfKey(k) ==
    {r \in teacher_attendance :
        r.teacher_id = k[1] /\ r.attendance_date = isoformat(k[2])}

StudentRowsOfKey(k) ==
    {r \in student_attendance :
        r.student_id = k[1] /\ r.attendance_date = isoformat(k[2])}

\* C8: after any sequence of mark_teacher_attendance (mark_student_attendance)
\* calls there is at most one attendance record per (id, date), with the status
\* of the latest mark of that key, and none for a key never marked; a mark that
\* repeats the latest status of its key leaves the table as it was.
C8_OneMarkPerDay ==
    /\ [](/\ \A r \in teacher_attendance :
                 \E k \in DOMAIN teacher_marks : r \in TeacherRowsOfKey(k)
          /\ \A r \in student_attendance :
                 \E k \in DOMAIN student_marks : r \in StudentRowsOfKey(k)
          /\ \A k \in DOMAIN teacher_marks :
                 IF teacher_marks[k] = NoStatus
                 THEN TeacherRowsOfKey(k) = {}
                 ELSE /\ Cardinality(TeacherRowsOfKey(k)) = 1
                      /\ \A r \in TeacherRowsOfKey(k) : r.status = teacher_marks[k]
          /\ \A k \in DOMAIN student_marks :
                 IF student_marks[k] = NoStatus
                 THEN StudentRowsOfKey(k) = {}
                 ELSE /\ Cardinality(StudentRowsOfKey(k)) = 1
                      /\ \A r \in StudentRowsOfKey(k) : r.status = student_marks[k])
    /\ [][(/\ (last'.op = "mark_teacher_attendance" /\ teacher_marks' = teacher_marks)
              => teacher_attendance' = teacher_attendance
           /\ (last'.op = "mark_student_attendance" /\ student_marks' = student_marks)
              => student_attendance' = student_attendance)]_vars

\* C8 witness: teacher 1 and student 1 each hold one record for each of two days,
\* 'Absent' on the first and 'Present' on the second
C8_Witness ==
    /\ teacher_attendance =
           {TeacherAttendanceRow(1, isoformat(Jan5), "Absent"),
            TeacherAttendanceRow(1, isoformat(Jan6), "Present")}
    /\ student_attendance =
           {StudentAttendanceRow(1, isoformat(Jan5), "Absent"),
            StudentAttendanceRow(1, isoformat(Jan6), "Present")}

\* C9: the attendance counted for a teacher and a (month, year) is exactly that
\* teacher's records dated in that month and year: total the number of them,
\* present those marked 'Present', absent those marked 'Absent'; other teachers,
\* months and years and unmarked days add nothing.  Read on the row
\* calculate_monthly_salary fetches and on the rows of the monthly report.
C9_CountsOfThePeriod ==
    /\ (IsCalculate(last) /\ last.attendance.read)
       => last.attendance = Counts(Cardinality(MarkedOfCall(last)),
                                   Cardinality(PresentOfCall(last)),
                                   Cardinality(AbsentOfCall(last)))
    /\ (last.op = "get_teacher_attendance_report")
       => \A row \in last.ret :
              /\ row.total_days =
                     Cardinality(MarkedIn(row.teacher_id, last.args.month, last.args.year))
              /\ row.present_days =
                     Cardinality(PresentIn(row.teacher_id, last.args.month, last.args.year))
              /\ row.absent_days =
                     Cardinality(AbsentIn(row.teacher_id, last.args.month, last.args.year))

\* C9 witness: teacher 1 counted for January 2024 with one present and one absent
\* day there, and marks in February 2024 and January 2025; teacher 2 marked in
\* January 2024
C9_Witness ==
    /\ IsCalculate(last)
    /\ last.args = [teacher_id |-> 1, month |-> 1, year |-> 2024]
    /\ last.attendance = Counts(2, 1, 1)
    /\ teacher_marks[<<1, Feb5>>] # NoStatus
    /\ teacher_marks[<<1, NextJan5>>] # NoStatus
    /\ teacher_marks[<<2, Jan5>>] # NoStatus

(***************************************************************************)
(* Grades and exam results                                                 *)
(***************************************************************************)
IsGrade(step) == step.op = "calculate_grade"

\* the place of a grade in the order F < D < C < B < A < A+
GradeOrder == <<"F", "D", "C", "B", "A", "A+">>
Rank(grade) == CHOOSE i \in DOMAIN GradeOrder : GradeOrder[i] = grade

\* C11: calculate_grade gives 'A+' exactly for the percentages from 90 up, 'A'
\* from 80 up to but not 90, 'B' from 70, 'C' from 60, 'D' from 50, and 'F'
\* exactly below 50; every lower bound is inclusive, and nothing is clamped:
\* above 100 the grade is 'A+', below 0 it is 'F'.
C11_GradeThresholds ==
    IsGrade(last)
    => LET p == last.args.percentage
           AtLeast(n) == p.num >= n * p.den
       IN  /\ last.ret = "A+" <=> AtLeast(90)
           /\ last.ret = "A" <=> (AtLeast(80) /\ ~AtLeast(90))
           /\ last.ret = "B" <=> (AtLeast(70) /\ ~AtLeast(80))
           /\ last.ret = "C" <=> (AtLeast(60) /\ ~AtLeast(70))
           /\ last.ret = "D" <=> (AtLeast(50) /\ ~AtLeast(60))
           /\ last.ret = "F" <=> ~AtLeast(50)
           /\ p.num > 100 * p.den => last.ret = "A+"
           /\ p.num < 0 => last.ret = "F"

\* C11 witness: exactly 50 percent has been graded 'D', right after exactly 90
\* percent was graded 'A+'
C11_Witness ==
    /\ IsGrade(last)
    /\ last.args.percentage = Percent(100, 2) /\ last.ret = "D"
    /\ last.args.earlier.called
    /\ last.args.earlier.percentage = Percent(180, 2)
    /\ last.args.earlier.grade = "A+"

\* C12: of two calls of calculate_grade, the one with the percentage that is
\* not the lower gets a grade that is not the lower in F < D < C < B < A < A+.
C12_GradeMonotonic ==
    (IsGrade(last) /\ last.args.earlier.called)
    => LET p1 == last.args.percentage
           p2 == last.args.earlier.percentage
       IN  p1.num * p2.den >= p2.num * p1.den
           => Rank(last.ret) >= Rank(last.args.earlier.grade)

\* C12 witness: a percentage above 100 has been graded better than the
\* percentage below 0 graded before it
C12_Witness ==
    /\ IsGrade(last) /\ last.args.earlier.called
    /\ last.args.percentage.num > 100 * last.args.percentage.den
    /\ last.args.earlier.percentage.num < 0
    /\ Rank(last.ret) > Rank(last.args.earlier.grade)

IsResultCard(step) == step.op = "Generate Result Card"
IsResultsTab(step) == step.op \in {"Generate Result Card", "View Results"}

\* C13: every subject row of a result card carries the grade of its unrounded
\* percentage marks / total_marks * 100, so that a result just below a
\* threshold is not given the higher grade.
C13_GradeOfUnroundedPercentage ==
    (IsResultCard(last) /\ last.ret.drawn)
    => \A r \in last.ret.rows :
           r.total_marks > 0
           => r.grade = calculate_grade(Percent(r.marks * 100, r.total_marks))

\* C14: whatever results add_result has stored, a run of a results tab does not
\* fail, every per-subject percentage and the overall percentage it shows is a
\* number, and every grade it shows is a grade.
C14_PercentageGuarded ==
    IsResultsTab(last)
    => /\ ~last.ret.raised
       /\ \A r \in last.ret.rows : r.percentage.kind = "float"
       /\ last.ret.drawn
          => /\ last.ret.overall_percentage.kind = "float"
             /\ \E i \in DOMAIN GradeOrder : GradeOrder[i] = last.ret.overall_grade
             /\ IsResultCard(last)
                => \A r \in last.ret.rows :
                       \E i \in DOMAIN GradeOrder : GradeOrder[i] = r.grade

(***************************************************************************)
(* Rejected and failed writes                                              *)
(***************************************************************************)
\* a student holds the (class, section, roll_number) of the call
StudentKeyTaken(args) ==
    \E r \in students : /\ r.class = args.class
                        /\ r.section = args.section
                        /\ r.roll_number = args.roll_number

\* a subject holds the (subject_name, class) of the call
SubjectKeyTaken(args) ==
    \E r \in subjects : r.subject_name = args.subject_name /\ r.class = args.class

\* C15: add_student called with a (class, section, roll_number) that a student
\* holds, and add_subject called with a (subject_name, class) that a subject
\* holds, return (False, message) and leave students and subjects as they were.
C15_DuplicateRejected ==
    [][(/\ (last'.op = "add_student" /\ StudentKeyTaken(last'.args))
           => (/\ ~last'.ret.ok
               /\ last'.ret.message # <<>>
               /\ UNCHANGED <<students, next_student_id, subjects, next_subject_id>>)
        /\ (last'.op = "add_subject" /\ SubjectKeyTaken(last'.args))
           => (/\ ~last'.ret.ok
               /\ last'.ret.message # <<>>
               /\ UNCHANGED <<students, next_student_id, subjects, next_subject_id>>))]_vars

\* C15 witness: add_student has just been refused for a roll number its class
\* and section hold, with a subject stored
C15_Witness ==
    /\ last.op = "add_student"
    /\ StudentKeyTaken(last.args)
    /\ ~last.ret.ok
    /\ Cardinality(students) = 1
    /\ subjects # {}

\* the writes of the data layer, and those of them that return a bare True or
\* False where the others return (success, message)
WriteOps == {"add_student", "add_subject", "add_result", "add_teacher",
             "update_teacher", "delete_teacher", "mark_student_attendance",
             "mark_teacher_attendance", "save_salary_record"}
BareOps == {"mark_student_attendance", "mark_teacher_attendance", "save_salary_record"}

\* the message a call hands to its caller
MessageOf(step) == IF step.op \in BareOps THEN <<>> ELSE step.ret.message

\* the call reports that it did not succeed
Failed(step) == IF step.op \in BareOps THEN step.ret = FALSE ELSE ~step.ret.ok

\* C16: a write called while the store raises an exception that is no
\* uniqueness rejection reports the failure to its caller together with the
\* text of the exception; add/update/delete of teachers, add_student,
\* add_subject, add_result, mark_student_attendance, mark_teacher_attendance
\* and save_salary_record all do.
C16_FailureSurfaced ==
    [][((fault.raised /\ fault' = fault /\ last'.op \in WriteOps)
        => (/\ Failed(last')
            /\ \E i \in DOMAIN MessageOf(last') :
                   MessageOf(last')[i] = fault.message))]_vars

(***************************************************************************)
(* Two operators                                                           *)
(***************************************************************************)
\* the key both operators write: teacher 1 on 2024-01-05, and teacher 1's
\* salary record of January 2024
ContestedMark == <<1, Jan5>>
ContestedSave == <<1, "January", 2024>>

\* C17: however the statements and commits of two operators who upsert the same
\* key interleave, the table holds no row of the key before the first commit
\* and, from then on, exactly one, with every value that of the write that
\* committed last: for mark_teacher_attendance on one teacher and date and for
\* save_salary_record on one teacher, month and year.
C17_LastCommitWins ==
    /\ IF teacher_marks[ContestedMark] = NoStatus
       THEN TeacherRowsOfKey(ContestedMark) = {}
       ELSE TeacherRowsOfKey(ContestedMark) =
                {TeacherAttendanceRow(1, isoformat(Jan5), teacher_marks[ContestedMark])}
    /\ IF saved[ContestedSave].none
       THEN RowsOfKey(ContestedSave) = {}
       ELSE RowsOfKey(ContestedSave) =
                {SalaryRow(1, "January", 2024, saved[ContestedSave].base_salary,
                           saved[ContestedSave].deductions,
                           saved[ContestedSave].net_salary, "Pending")}

\* C17 witness: operator 2's save of the record has just given up on the lock of
\* operator 1's uncommitted save of other amounts for the same record, which an
\* earlier commit had stored and a later one replaced; the mark of the day is
\* stored too
C17_Witness ==
    /\ last.op = "save_salary_record"
    /\ last.args = [operator |-> "operator 2"]
    /\ last.ret = FALSE
    /\ conns["operator 1"].open
    /\ conns["operator 1"].key = ContestedSave
    /\ saved[ContestedSave].again
    /\ conns["operator 1"].row[5] # saved[ContestedSave].deductions
    /\ teacher_marks[ContestedMark] # NoStatus

C20_StatusPresentOrAbsent ==
    /\ \A r \in teacher_attendance \cup student_attendance : r.status \in Statuses
    /\ (IsCalculate(last) /\ last.attendance.read)
       => last.attendance.present_days + last.attendance.absent_days
              = last.attendance.total_days

(***************************************************************************)
(* The login shell                                                         *)
(***************************************************************************)
\* the credentials of a login submission are both given and an admin row holds
\* the username with the SHA-256 digest of the password
Matches(args) ==
    /\ args.username # ""
    /\ args.password # ""
    /\ \E r \in admins : /\ r.username = args.username
                         /\ r.password = hash_password(args.password)

\* C19: a page other than the login page is drawn only while logged_in is
\* true; logged_in turns true only in a login submission whose username and
\* password are both given and match an admin row, and then username is the
\* one submitted; a login submission that does not match leaves logged_in
\* false; a logout leaves logged_in false and username None.
C19_LoginGuardsPages ==
    /\ [](rendered # "Login" => session_state.logged_in)
    /\ [][(/\ (~session_state.logged_in /\ session_state'.logged_in)
              => (/\ last'.op = "Login"
                  /\ Matches(last'.args)
                  /\ session_state'.username = Username(last'.args.username))
           /\ (last'.op = "Login" /\ ~Matches(last'.args))
              => ~session_state'.logged_in
           /\ last'.op = "Logout"
              => (/\ ~session_state'.logged_in
                  /\ session_state'.username = NoUsername))]_vars

\* C19 witness: the admin has just logged in again, after a logout from the
\* results page, which is drawn
C19_Witness ==
    /\ last.op = "Login" /\ last.ret = TRUE
    /\ session_state.logged_in
    /\ session_state.username = Username("admin")
    /\ rendered = "Student Results"

(***************************************************************************)
(* The attendance pages                                                    *)
(***************************************************************************)
IsBatch(step) == step.op = "Save Attendance"

\* the rows of an attendance table for one id and date
BatchRows(kind, teacher_table, student_table, id, attendance_date) ==
    IF kind = "teacher"
    THEN {r \in teacher_table :
             r.teacher_id = id /\ r.attendance_date = isoformat(attendance_date)}
    ELSE {r \in student_table :
             r.student_id = id /\ r.attendance_date = isoformat(attendance_date)}

\* the one row a mark that succeeded leaves for its id and date
BatchRow(kind, id, attendance_date, status) ==
    IF kind = "teacher"
    THEN TeacherAttendanceRow(id, isoformat(attendance_date), status)
    ELSE StudentAttendanceRow(id, isoformat(attendance_date), status)

\* C21: in one 'Save Attendance' submission of either attendance page, every
\* call that succeeds leaves its mark stored, before or after a call that
\* fails; a call that fails leaves the rows of its id and date as they were;
\* and the page reports the count of the calls that succeeded and the size of
\* the batch, with the success message only when every call succeeded.
C21_BatchKeepsSuccesses ==
    [][(IsBatch(last')
        => LET a == last'.args
               data == a.attendance_data
               succeeded == {i \in DOMAIN data : data[i][1] \notin a.failing}
           IN  /\ \A i \in DOMAIN data :
                      IF i \in succeeded
                      THEN BatchRows(a.kind, teacher_attendance', student_attendance',
                                     data[i][1], a.attendance_date)
                               = {BatchRow(a.kind, data[i][1], a.attendance_date,
                                           data[i][2])}
                      ELSE BatchRows(a.kind, teacher_attendance', student_attendance',
                                     data[i][1], a.attendance_date)
                               = BatchRows(a.kind, teacher_attendance,
                                           student_attendance, data[i][1],
                                           a.attendance_date)
               /\ last'.ret.success_count = Cardinality(succeeded)
               /\ last'.ret.size = Len(data)
               /\ last'.ret.message = "success" <=> succeeded = DOMAIN data)]_vars

\* C21 witness: a teacher batch of two has just been saved in which the first
\* call (teacher 2) failed and the second (teacher 1) succeeded: teacher 1's mark
\* is stored, teacher 2 has none, and the page reports 1 of 2
C21_Witness ==
    /\ IsBatch(last)
    /\ last.args.kind = "teacher"
    /\ Len(last.args.attendance_data) = 2
    /\ last.args.attendance_data[1][1] = 2
    /\ last.args.failing = {2}
    /\ last.ret = BatchReport(1, 2)
    /\ TeacherRowsOfKey(<<1, Jan5>>) =
           {TeacherAttendanceRow(1, isoformat(Jan5), last.args.attendance_data[2][2])}
    /\ TeacherRowsOfKey(<<2, Jan5>>) = {}

(***************************************************************************)
(* The students table                                                      *)
(***************************************************************************)
SameStudentKey(r, q) ==
    r.class = q.class /\ r.section = q.section /\ r.roll_number = q.roll_number

\* the update names an existing student and a key another student holds
WouldDuplicate(table, a) ==
    /\ \E r \in table : r.student_id = a.student_id
    /\ \E r \in table : /\ r.student_id # a.student_id
                        /\ r.class = a.class
                        /\ r.section = a.section
                        /\ r.roll_number = a.roll_number

\* C22: after any sequence of add_student, update_student and delete_student
\* no two rows of students share (class, section, roll_number), and an
\* update_student that would give a student the key of another returns
\* (False, message) and leaves the table as it was.
C22_StudentKeyUnique ==
    /\ [](\A r \in students, q \in students : SameStudentKey(r, q) => r = q)
    /\ [][(last'.op = "update_student" /\ WouldDuplicate(students, last'.args)
           => /\ ~last'.ret.ok
              /\ Len(last'.ret.message) > 0
              /\ students' = students)]_vars

\* C22 witness: update_student has just been refused the key the other of two
\* stored students holds
C22_Witness ==
    /\ last.op = "update_student"
    /\ WouldDuplicate(students, last.args)
    /\ ~last.ret.ok
    /\ last.ret.message = ErrorMessage(StudentsUniqueFailed)
    /\ Cardinality(students) = 2

(***************************************************************************)
(* The salary of a month of 31 days                                        *)
(***************************************************************************)
\* a call of calculate_monthly_salary that found the teacher with a salary of
\* zero or more
PaidCalculate(step) ==
    IsCalculate(step) /\ ~step.ret.is_none /\ step.ret.base_salary >= 0

\* C23 as stated: for base_salary >= 0 and any attendance of one calendar month,
\* net_salary is not negative and deductions do not exceed base_salary
C23_NetNeverNegative ==
    PaidCalculate(last)
        => last.ret.net_salary >= 0 /\ last.ret.deductions <= last.ret.base_salary

\* C23: for base_salary >= 0 the deductions are base_salary / 30 for each
\* 'Absent' record of the month and net_salary is base_salary less the
\* deductions; net_salary is not negative and the deductions do not exceed
\* base_salary when at most 30 records of the month are 'Absent', and with 31
\* 'Absent' records and a salary above zero the deductions exceed base_salary
\* and net_salary is negative.
C23_NetNegativeBeyondThirtyAbsences ==
    PaidCalculate(last) /\ last.attendance.read /\ last.attendance.total_days > 0
        => LET c == last.ret
               absent_days == last.attendance.absent_days
           IN  /\ absent_days <= 31
               /\ c.deductions = (c.base_salary \div DaysPerMonth) * absent_days
               /\ c.net_salary = c.base_salary - c.deductions
               /\ absent_days <= DaysPerMonth
                      => c.net_salary >= 0 /\ c.deductions <= c.base_salary
               /\ absent_days > DaysPerMonth /\ c.base_salary > 0
                      => c.net_salary < 0 /\ c.deductions > c.base_salary

\* C23 witness: the salary of a teacher paid 30000 and marked 'Absent' on each of
\* the 31 days of January: deductions 31000, net_salary -1000
C23_Witness ==
    /\ PaidCalculate(last)
    /\ last.attendance = Counts(31, 0, 31)
    /\ last.ret = Salary3(Rupees(30000), Rupees(31000), Rupees(-1000))

(***************************************************************************)
(* The attendance report and the salary computation                        *)
(***************************************************************************)
IsReport(step) == step.op = "get_teacher_attendance_report"

\* the attendance row calculate_monthly_salary fetches for the teacher in the
\* period of the report
CountsOfReport(step, id) ==
    salary_call(teachers, teacher_attendance, id, step.args.month,
                step.args.year).attendance

\* C24: a teacher has a row in get_teacher_attendance_report exactly when
\* calculate_monthly_salary counts at least one attendance record of the teacher
\* in the period (it does not take its nothing-marked branch); every row has
\* total_days >= 1, and its absent_days and total_days are the counts
\* calculate_monthly_salary fetches.
C24_ReportAgreesWithSalary ==
    IsReport(last)
        => /\ \A t \in teachers :
                  LET counts == CountsOfReport(last, t.teacher_id)
                      rows == {r \in last.ret : r.teacher_id = t.teacher_id}
                  IN  /\ rows # {} <=> counts.total_days # 0
                      /\ Cardinality(rows) <= 1
                      /\ \A r \in rows : /\ r.total_days >= 1
                                         /\ r.total_days = counts.total_days
                                         /\ r.absent_days = counts.absent_days
           /\ \A r \in last.ret : TeacherExists(r.teacher_id)

\* C24 witness: a report of January 2024 for two teachers, teacher 1 marked
\* 'Absent' on one day and 'Present' on another, teacher 2 not marked in the month
C24_Witness ==
    /\ IsReport(last)
    /\ last.args.month = 1 /\ last.args.year = 2024
    /\ TeacherExists(1) /\ TeacherExists(2)
    /\ last.ret = {[teacher_id |-> 1, present_days |-> 1, absent_days |-> 1,
                    total_days |-> 2]}
    /\ CountsOfReport(last, 2) = Counts(0, 0, 0)

(***************************************************************************)
(* The student attendance page: what a save writes                         *)
(***************************************************************************)
\* C25: on the student attendance page the students a 'Save Attendance' writes
\* are exactly those of the class and section selected at the most recent
\* 'Load Students' click, the date written is the date selected at that click,
\* and the cached grid is removed after a save in which every call succeeded.
C25_SaveWritesLatestLoad ==
    [][(IsBatch(last') /\ last'.args.kind = "student"
        => LET load == attendance_cache.load
               data == last'.args.attendance_data
           IN  /\ load.clicked
               /\ {data[i][1] : i \in DOMAIN data} = load.students
               /\ SomeDate(last'.args.attendance_date) = load.attendance_date
               /\ last'.ret.message = "success" => ~attendance_cache'.has_df)]_vars

(***************************************************************************)
(* Deleting a teacher                                                      *)
(***************************************************************************)
\* the teacher_id was handed out and its teacher is deleted
Deleted(id) == id < next_teacher_id /\ ~TeacherExists(id)

\* C26: delete_teacher removes only the row of teachers: the rows of
\* teacher_attendance, salary_records and subjects that reference the teacher
\* stay as they are; and a teacher_id is never handed out again, so that no
\* later teacher is given the id the records of a deleted teacher carry.
C26_DeleteLeavesRecords ==
    /\ [](\A r \in teachers : r.teacher_id < next_teacher_id)
    /\ [][/\ last'.op = "delete_teacher"
              => /\ \E id \in TeacherArgs :
                        teachers' = {r \in teachers : r.teacher_id # id}
                 /\ teacher_attendance' = teacher_attendance
                 /\ salary_records' = salary_records
                 /\ subjects' = subjects
          /\ next_teacher_id' >= next_teacher_id
          /\ \A id \in TeacherArgs :
                 Deleted(id) => \A r \in teachers' : r.teacher_id # id]_vars

\* C26 witness: teacher 1 has just been deleted and its attendance, salary record
\* and subject are still stored
C26_Witness ==
    /\ last.op = "delete_teacher"
    /\ last.ret.ok
    /\ Deleted(1)
    /\ \E r \in teacher_attendance : r.teacher_id = 1
    /\ \E r \in salary_records : r.teacher_id = 1
    /\ \E r \in subjects : r.teacher_id = 1

(***************************************************************************)
(* The status of a salary record                                           *)
(***************************************************************************)
IsPending(r) == r.status = "Pending" /\ r.paid_date = NoPaidDate

\* the rows of salary_records of (teacher_id, month name, year) in a table
SalaryRowsIn(table, id, month_name, year) ==
    {r \in table : r.teacher_id = id /\ r.month = month_name /\ r.year = year}

\* C27: every record save_salary_record writes with its default status has
\* status 'Pending' and no paid_date; no operation changes a record to 'Paid' or
\* sets its paid_date (only a save changes the table at all); and a save of a
\* period already saved replaces the whole row, which is left as the one row of
\* its period with the defaults again.
C27_SavedRecordPending ==
    /\ [](\A r \in salary_records : IsPending(r))
    /\ [][/\ last'.op # "save_salary_record" => salary_records' = salary_records
          /\ last'.op = "save_salary_record" /\ last'.ret = FALSE
                 => salary_records' = salary_records
          /\ last'.op = "save_salary_record" /\ last'.ret = TRUE
                 => \E name \in {month_names[i] : i \in DOMAIN month_names} :
                        LET a == last'.args
                            written == SalaryRowsIn(salary_records', a.teacher_id,
                                                    name, a.year)
                        IN  /\ Cardinality(written) = 1
                            /\ \A r \in written : IsPending(r)
                            /\ salary_records' \ written =
                                   salary_records \ SalaryRowsIn(salary_records,
                                                                 a.teacher_id, name,
                                                                 a.year)]_vars

\* C27 witness: January 2024 of teacher 1 has just been saved a second time and
\* its one row is 'Pending' with no paid_date
C27_Witness ==
    /\ last.op = "save_salary_record" /\ last.ret = TRUE
    /\ last.args = [teacher_id |-> 1, month |-> 1, year |-> 2024]
    /\ saved[<<1, "January", 2024>>].again
    /\ \E r \in salary_records :
           /\ SalaryRowsIn(salary_records, 1, "January", 2024) = {r}
           /\ IsPending(r)

(***************************************************************************)
(* Constructing DatabaseManager                                            *)
(***************************************************************************)
\* the stored data: every table and the AUTOINCREMENT counters
Stored ==
    <<admins, students, next_student_id, teachers, next_teacher_id, subjects,
      next_subject_id, student_attendance, teacher_attendance, student_results,
      salary_records>>

\* C28: constructing DatabaseManager is idempotent on the stored data: the
\* default admin is the same after one construction and after two, a
\* construction after the first leaves every table as it was, and in every
\* reachable state exactly one row of admins has username 'admin'.
C28_ConstructionIdempotent ==
    /\ init_admins(init_admins({})) = init_admins({})
    /\ [](Cardinality({r \in admins : r.username = "admin"}) = 1)
    /\ [][last'.op = "DatabaseManager" => Stored' = Stored]_vars

\* C28 witness: DatabaseManager has just been constructed over a database that
\* holds a teacher, a student and an attendance record besides the admin
C28_Witness ==
    /\ last.op = "DatabaseManager"
    /\ admins = {AdminRow("admin", hash_password("admin123"))}
    /\ teachers # {}
    /\ students # {}
    /\ teacher_attendance # {}

(***************************************************************************)
(* The month of a salary record                                            *)
(***************************************************************************)
\* C29: save_salary_record with a month outside 1..12 returns False and writes
\* nothing; for the months 1..12 the month name stored is a different one for
\* each month number, so that two saves collide only when their month numbers
\* are equal.
C29_MonthOutsideRangeRejected ==
    /\ \A m \in 1 .. 12, n \in 1 .. 12 :
           python_index(month_names, m - 1).value = python_index(month_names, n - 1).value
               => m = n
    /\ [][last'.op = "save_salary_record" /\ last'.args.month \notin 1 .. 12
              => last'.ret = FALSE /\ salary_records' = salary_records]_vars

====
